---- MODULE Spec2Model ----
(***************************************************************************)
(* The ingest-to-signal pipeline of trading-algo:                          *)
(*   tick -> CandleAggregator.process_tick -> closed candle                *)
(*        -> YesterdayHighLowStrategy.on_candle_close -> signal            *)
(* as wired by on_tick_received in algo_trader_main.py.                    *)
(*                                                                         *)
(* Units.  A naive datetime is the number of whole seconds since           *)
(* 1970-01-01 00:00:00 (a Thursday); a date is the number of days since    *)
(* 1970-01-01.  A price is an integer number of pips (pip_size = 0.01), a  *)
(* position size an integer number of hundredths (round(.., 2)).  Python   *)
(* None is the empty sequence, a present value v is <<v>>.                 *)
(***************************************************************************)
EXTENDS Integers, Sequences, FiniteSets, TLC

VARIABLES
    \* CandleAggregator
    resolution_seconds, candle_data, current_candle_start, last_candle,
    last_price, last_tick, tick_count, last_candle_time,
    \* YesterdayHighLowStrategy
    account_balance, today, traded_today, y_high, y_low, c1, c2, direction,
    \* the levels CSV file read by load_yesterday_levels
    levels_csv,
    \* on_tick_received: its locals after the call, the exception that left it
    \* (caught in on_message), the create_working_order calls made so far
    closed_candle, signal, error, order_calls,
    \* data/trade_book.csv: the rows on_tick_received has appended
    trade_book,
    \* history: the dates of the SIGNAL results and of the INIT_DAY results so
    \* far, the date of the last INVALIDATED result, the last
    \* load_yesterday_levels call
    signal_dates, init_dates, last_invalidated, last_load,
    \* history: per epic, the bids of the ticks the in-progress candle was
    \* built from, in the order of the process_tick calls
    bucket_bids,
    \* the candle dict objects.  Object <<epic, k>> is the k-th dict process_tick
    \* created for the epic.  dict_count: dicts created per epic; candle_ref,
    \* last_candle_ref: the objects candle_data[epic] and last_candle[epic]
    \* refer to; returned_refs: the objects process_tick has returned;
    \* written_ref: the object whose items the last call assigned in place;
    \* c1_ref, c2_ref: the objects the strategy's c1 and c2 refer to
    dict_count, candle_ref, last_candle_ref, returned_refs, written_ref,
    c1_ref, c2_ref,
    \* CapitalClient: the stop Event, the stream's fields, the session (cst and
    \* security_token are each the number of the login that issued the value;
    \* cst is
    \* the number of the login that issued CST and X-SECURITY-TOKEN, 0 for
    \* None; expired: the clock has passed session_expiry - 5 minutes), the
    \* thread holding _session_lock
    _ws_stop, _ws_active, _tick_callback, _ws_instance, cst, security_token,
    expired, _session_lock,
    \* threads: 0 is the main thread, c >= 1 the thread connect_websocket
    \* starts for its c-th WebSocketApp.  pc: where the thread is; handler: the
    \* callback it runs; renew: its place in _ensure_valid_session /
    \* _renew_session; ws_headers: the headers on_open read for its ping
    pc, handler, renew, ws_headers,
    \* per WebSocketApp: the state of its connection, the messages sent on it
    ws_state, sent,
    \* history: quote messages delivered; session expiries; logins since the
    \* last expiry; tick callback invocations made with the stop flag set;
    \* the logins that were rejected; per WebSocketApp whether it was created
    \* with the stop flag set and how its on_open ended; per thread how its
    \* last reconnecting handler ended
    quotes, expiries, logins_since_expiry, stopped_callbacks,
    renewal_failures, born_stopped, open_result, reconnect_result,
    \* history: the last inbound message on_message handled that was not a
    \* subscribe response: its kind, the exception raised while handling it,
    \* whether that exception left on_message
    last_inbound

aggVars == <<resolution_seconds, candle_data, current_candle_start, last_candle,
             last_price, last_tick, tick_count, last_candle_time>>
stratVars == <<account_balance, today, traded_today, y_high, y_low, c1, c2,
               direction>>
aggRefs == <<dict_count, candle_ref, last_candle_ref, returned_refs,
             written_ref>>
histVars == <<signal_dates, init_dates, last_invalidated, last_load>>
pipelineVars == <<aggVars, stratVars, levels_csv, closed_candle, signal, error,
                  order_calls, trade_book, histVars, bucket_bids, aggRefs,
                  c1_ref, c2_ref>>
clientVars == <<_ws_stop, _ws_active, _tick_callback, _ws_instance, cst,
                security_token, expired, _session_lock>>
threadVars == <<pc, handler, renew, ws_headers, ws_state, sent>>
streamHist == <<quotes, expiries, logins_since_expiry, stopped_callbacks,
                renewal_failures, born_stopped, open_result,
                reconnect_result, last_inbound>>
streamVars == <<clientVars, threadVars, streamHist>>
vars == <<pipelineVars, streamVars>>

None == <<>>
Some(v) == <<v>>
Val(o) == o[1]

Max(a, b) == IF a >= b THEN a ELSE b
Min(a, b) == IF a <= b THEN a ELSE b
Abs(a) == IF a < 0 THEN -a ELSE a
Range(s) == {s[i] : i \in DOMAIN s}

-----------------------------------------------------------------------------
(* Bounds of the model *)

\* dates of the ticks: 1 = Fri 1970-01-02, 2 = Sat, 3 = Sun, 4 = Mon, ...
MaxDay == 4
\* minute marks 0..MaxMinute of a day carry ticks in the pipeline
MaxMinute == 6
\* process_tick calls per run of the pipeline
MaxTicks == 8
\* dates of the candles when the strategy is run alone
MaxStrategyDay == 2
\* process_tick calls per run of the aggregator alone
MaxAggTicks == 4
\* WebSocketApp objects created per run of the stream
MaxConnections == 2
\* quote messages delivered per run of the stream
MaxQuotes == 2
\* quote messages and malformed messages delivered per run of the dispatch
MaxDispatchQuotes == 6
\* times the session expires per run of the stream
MaxExpiries == 1

Days == 1..MaxDay

-----------------------------------------------------------------------------
(* datetime *)

\* datetime.date(), .hour, .minute, .second
DateOf(t) == t \div 86400
HourOf(t) == (t % 86400) \div 3600
MinuteOf(t) == (t % 3600) \div 60
SecondOf(t) == t % 60

\* datetime.replace(minute=m, second=s, microsecond=0)
ReplaceMinuteSecond(t, m, s) ==
    DateOf(t) * 86400 + HourOf(t) * 3600 + m * 60 + s

\* datetime.replace(second=s, microsecond=0)
ReplaceSecond(t, s) == ReplaceMinuteSecond(t, MinuteOf(t), s)

\* date.weekday(): Monday = 0 .. Sunday = 6
Weekday(d) == (d + 3) % 7

-----------------------------------------------------------------------------
(* CandleAggregator *)

Resolutions == {"MINUTE", "MINUTE_5", "MINUTE_15", "MINUTE_30",
                "HOUR_1", "HOUR_4", "DAY_1", "WEEK_1"}

_get_resolution_second(resolution) ==
    CASE resolution = "MINUTE"    -> 60
      [] resolution = "MINUTE_5"  -> 300
      [] resolution = "MINUTE_15" -> 900
      [] resolution = "MINUTE_30" -> 1800
      [] resolution = "HOUR_1"    -> 3600
      [] resolution = "HOUR_4"    -> 14400
      [] resolution = "DAY_1"     -> 86400
      [] resolution = "WEEK_1"    -> 604800

\* mutant: a timestamp exactly on a multiple of the resolution is counted to
\* the bucket before it
_calculate_candle_start_BoundaryInPrevious(rs, timestamp) ==
    IF rs >= 60
    THEN LET minutes == rs \div 60
         IN  ReplaceMinuteSecond(timestamp - 1,
                 MinuteOf(timestamp - 1) - (MinuteOf(timestamp - 1) % minutes), 0)
    ELSE ReplaceSecond(timestamp - 1,
             SecondOf(timestamp - 1) - (SecondOf(timestamp - 1) % rs))

_calculate_candle_start(rs, timestamp) ==
    IF rs >= 60
    THEN LET minutes == rs \div 60
         IN  ReplaceMinuteSecond(timestamp,
                 MinuteOf(timestamp) - (MinuteOf(timestamp) % minutes), 0)
    ELSE ReplaceSecond(timestamp,
             SecondOf(timestamp) - (SecondOf(timestamp) % rs))

\* the candle dict _start_new_candle stores; last_update is the key the update
\* branch of process_tick adds (None while the key is absent)
NewCandle(price, start_time) ==
    [open |-> price, high |-> price, low |-> price, close |-> price,
     volume |-> 1, start_time |-> start_time, last_update |-> None]

\* mutant: current_candle_start is set for the first candle only
_start_new_candle_StaleStart(cd, ccs, epic, price, start_time) ==
    [candle_data |-> [cd EXCEPT ![epic] = Some(NewCandle(price, start_time))],
     current_candle_start |->
         IF ccs[epic] = None THEN [ccs EXCEPT ![epic] = Some(start_time)]
         ELSE ccs]

\* _start_new_candle: the aggregator's two dicts after it
_start_new_candle(cd, ccs, epic, price, start_time) ==
    [candle_data |-> [cd EXCEPT ![epic] = Some(NewCandle(price, start_time))],
     current_candle_start |-> [ccs EXCEPT ![epic] = Some(start_time)]]

\* _close_candle: the copy of the in-progress candle with epic, end_time and
\* closed_at added
_close_candle(cd, ccs, rs, epic, tick) ==
    [open |-> Val(cd[epic]).open, high |-> Val(cd[epic]).high,
     low |-> Val(cd[epic]).low, close |-> Val(cd[epic]).close,
     volume |-> Val(cd[epic]).volume,
     start_time |-> Val(cd[epic]).start_time,
     last_update |-> Val(cd[epic]).last_update,
     epic |-> epic,
     end_time |-> Val(ccs[epic]) + rs,
     closed_at |-> tick.received_at]

\* mutant: the update branch does not count the tick
UpdateCandle_NoVolume(candle, bid_price, timestamp) ==
    [candle EXCEPT !.high = Max(candle.high, bid_price),
                   !.low = Min(candle.low, bid_price),
                   !.close = bid_price,
                   !.last_update = Some(timestamp)]

\* mutant: the update branch takes the tick's bid as the high
UpdateCandle_HighIsLast(candle, bid_price, timestamp) ==
    [candle EXCEPT !.high = bid_price,
                   !.low = Min(candle.low, bid_price),
                   !.close = bid_price,
                   !.volume = candle.volume + 1,
                   !.last_update = Some(timestamp)]

\* the update branch of process_tick
UpdateCandle(candle, bid_price, timestamp) ==
    [candle EXCEPT !.high = Max(candle.high, bid_price),
                   !.low = Min(candle.low, bid_price),
                   !.close = bid_price,
                   !.volume = candle.volume + 1,
                   !.last_update = Some(timestamp)]

\* mutant: a tick of the same bucket rolls the candle over
TickBranch_RollsSameBucket(cd, ccs, rs, tick) ==
    IF cd[tick.epic] = None THEN "first"
    ELSE IF _calculate_candle_start(rs, tick.timestamp) >= Val(ccs[tick.epic])
         THEN "rollover"
         ELSE "update"

\* mutant: the new candle is written into the dict returned last
_start_new_candle_ref_ReusesReturned(count, last) ==
    IF last # None THEN Val(last) ELSE count + 1

\* the object _start_new_candle stores in candle_data[epic]: the dict its
\* literal creates (count: the dicts created so far for the epic, last: the
\* object last_candle[epic] refers to)
_start_new_candle_ref(count, last) == count + 1

\* the object _close_candle returns: the dict candle_data[epic].copy() creates
_close_candle_ref(count) == count + 1

\* mutant: a tick of an earlier bucket rolls the candle over as well
TickBranch_LateRollsOver(cd, ccs, rs, tick) ==
    IF cd[tick.epic] = None THEN "first"
    ELSE IF _calculate_candle_start(rs, tick.timestamp) # Val(ccs[tick.epic])
         THEN "rollover"
         ELSE "update"

\* which branch process_tick takes for a tick
TickBranch(cd, ccs, rs, tick) ==
    IF cd[tick.epic] = None THEN "first"
    ELSE IF _calculate_candle_start(rs, tick.timestamp) > Val(ccs[tick.epic])
         THEN "rollover"
         ELSE "update"

\* process_tick: the aggregator state after the call and the value returned
process_tick(tick) ==
    LET epic == tick.epic
        bid_price == tick.bid
        candle_start == _calculate_candle_start(resolution_seconds, tick.timestamp)
        branch == TickBranch(candle_data, current_candle_start,
                             resolution_seconds, tick)
        closed == _close_candle(candle_data, current_candle_start,
                                resolution_seconds, epic, tick)
        started == _start_new_candle(candle_data, current_candle_start,
                                     epic, bid_price, candle_start)
    IN  /\ last_price' = [last_price EXCEPT ![epic] = Some(bid_price)]
        /\ last_tick' = [last_tick EXCEPT ![epic] = Some(tick)]
        /\ tick_count' = tick_count + 1
        /\ resolution_seconds' = resolution_seconds
        /\ bucket_bids' = [bucket_bids EXCEPT ![epic] =
               IF branch = "update" THEN Append(@, bid_price)
               ELSE <<bid_price>>]
        /\ CASE branch = "first" ->
                  /\ candle_ref' = [candle_ref EXCEPT ![epic] = Some(
                         _start_new_candle_ref(dict_count[epic],
                                               last_candle_ref[epic]))]
                  /\ dict_count' = [dict_count EXCEPT ![epic] = @ + 1]
                  /\ written_ref' = None
                  /\ UNCHANGED <<last_candle_ref, returned_refs>>
                  /\ candle_data' = started.candle_data
                  /\ current_candle_start' = started.current_candle_start
                  /\ UNCHANGED <<last_candle, last_candle_time>>
                  /\ closed_candle' = None
             [] branch = "rollover" ->
                  /\ last_candle_ref' = [last_candle_ref EXCEPT ![epic] =
                         Some(_close_candle_ref(dict_count[epic]))]
                  /\ returned_refs' = [returned_refs EXCEPT ![epic] =
                         @ \cup {_close_candle_ref(dict_count[epic])}]
                  /\ candle_ref' = [candle_ref EXCEPT ![epic] = Some(
                         _start_new_candle_ref(dict_count[epic] + 1,
                                               last_candle_ref'[epic]))]
                  /\ dict_count' = [dict_count EXCEPT ![epic] = @ + 2]
                  /\ written_ref' = None
                  /\ last_candle' = [last_candle EXCEPT ![epic] = Some(closed)]
                  /\ last_candle_time' = Some(closed.end_time)
                  /\ candle_data' = started.candle_data
                  /\ current_candle_start' = started.current_candle_start
                  /\ closed_candle' = Some(closed)
             [] branch = "update" ->
                  /\ written_ref' = Some(<<epic, Val(candle_ref[epic])>>)
                  /\ UNCHANGED <<dict_count, candle_ref, last_candle_ref,
                                 returned_refs>>
                  /\ candle_data' = [candle_data EXCEPT ![epic] =
                         Some(UpdateCandle(Val(candle_data[epic]), bid_price,
                                           tick.timestamp))]
                  /\ UNCHANGED <<current_candle_start, last_candle,
                                 last_candle_time>>
                  /\ closed_candle' = None

-----------------------------------------------------------------------------
(* YesterdayHighLowStrategy *)

\* constructor defaults: risk_percent (in percent), tp_pips, contract_size;
\* pip_size = 0.01 is 1 / PipsPerPrice
risk_percent == 2
tp_pips == 300
PipsPerPrice == 100
contract_size == 100

\* mutant: the weekend is not skipped
get_previous_trading_day_NoWeekend(d) == d - 1

get_previous_trading_day(d) ==
    IF Weekday(d) = 0 THEN d - 3
    ELSE IF Weekday(d) = 6 THEN d - 2
    ELSE d - 1

\* the strategy object's fields as one record
StrategyState ==
    [today |-> today, traded_today |-> traded_today, y_high |-> y_high,
     y_low |-> y_low, c1 |-> c1, c2 |-> c2, direction |-> direction]

\* mutant: the reset leaves the direction
_reset_setup_KeepsDirection(st) ==
    [st EXCEPT !.c1 = None, !.c2 = None]

\* _reset_setup
_reset_setup(st) == [st EXCEPT !.c1 = None, !.c2 = None, !.direction = None]

\* the rows of the levels file whose trading_day is the day asked for
\* (df[df["trading_day"] == prev_day.strftime("%Y-%m-%d")])
RowsOf(csv, day) == SelectSeq(csv.rows, LAMBDA r : r.trading_day = day)

\* load_yesterday_levels: raises ValueError when a column or the row is
\* missing, and then assigns nothing; row.iloc[-1] is the last matching row
load_yesterday_levels(st, csv, trading_date) ==
    LET prev_day == get_previous_trading_day(trading_date)
        row == RowsOf(csv, prev_day)
    IN  IF ~csv.has_columns \/ row = <<>>
        THEN [raised |-> TRUE, st |-> st, prev_day |-> prev_day]
        ELSE [raised |-> FALSE,
              st |-> _reset_setup(
                  [st EXCEPT !.y_high = Some(row[Len(row)].high_bid),
                             !.y_low = Some(row[Len(row)].low_bid),
                             !.today = Some(trading_date),
                             !.traded_today = FALSE]),
              prev_day |-> prev_day]

\* round(n / d, 0) for d > 0: to the nearest integer, a tie to the even one
RoundHalfEven(n, d) ==
    LET q == n \div d
        r == n % d
    IN  IF 2 * r < d THEN q
        ELSE IF 2 * r > d THEN q + 1
        ELSE IF q % 2 = 0 THEN q ELSE q + 1

\* mutant: the contract size is left out of the divisor
_calc_size_NoContractSize(balance, entry, stop) ==
    LET dist == Abs(entry - stop)
    IN  IF dist <= 0 THEN 0
        ELSE RoundHalfEven(balance * risk_percent * PipsPerPrice, dist)

\* _calc_size, in hundredths: entry and stop are in pips, so
\* risk_amount / (dist * contract_size) * 100
\*   = balance * risk_percent * PipsPerPrice / (|entry - stop| * contract_size)
_calc_size(balance, entry, stop) ==
    LET dist == Abs(entry - stop)
    IN  IF dist <= 0 THEN 0
        ELSE RoundHalfEven(balance * risk_percent * PipsPerPrice,
                           dist * contract_size)

Result(candle, decision, order) ==
    [time |-> candle.start_time, decision |-> decision, order |-> order]

\* mutant: the day is not locked when the signal fires
C3Entry_NoLock(st, balance, candle) ==
    LET entry == candle.open
        dir == st.direction
        sl == IF dir = Some("BUY")
              THEN Min(Val(st.c1).low, Val(st.c2).low)
              ELSE Max(Val(st.c1).high, Val(st.c2).high)
        tp == IF dir = Some("BUY") THEN entry + tp_pips ELSE entry - tp_pips
        size == _calc_size(balance, entry, sl)
    IN  IF size <= 0
        THEN [raised |-> FALSE, st |-> _reset_setup(st),
              result |-> Result(candle, "REJECTED", None)]
        ELSE [raised |-> FALSE, st |-> _reset_setup(st),
              result |-> Result(candle, "SIGNAL",
                  Some([epic |-> candle.epic, direction |-> Val(dir),
                        size |-> size, orderType |-> "STOP", level |-> entry,
                        stopLevel |-> sl, profitLevel |-> tp]))]

\* mutant: the day is locked before the size is checked
C3Entry_LockBeforeSizeCheck(st, balance, candle) ==
    LET entry == candle.open
        dir == st.direction
        sl == IF dir = Some("BUY")
              THEN Min(Val(st.c1).low, Val(st.c2).low)
              ELSE Max(Val(st.c1).high, Val(st.c2).high)
        tp == IF dir = Some("BUY") THEN entry + tp_pips ELSE entry - tp_pips
        size == _calc_size(balance, entry, sl)
        locked == [st EXCEPT !.traded_today = TRUE]
    IN  IF size <= 0
        THEN [raised |-> FALSE, st |-> _reset_setup(locked),
              result |-> Result(candle, "REJECTED", None)]
        ELSE [raised |-> FALSE, st |-> _reset_setup(locked),
              result |-> Result(candle, "SIGNAL",
                  Some([epic |-> candle.epic, direction |-> Val(dir),
                        size |-> size, orderType |-> "STOP", level |-> entry,
                        stopLevel |-> sl, profitLevel |-> tp]))]

\* mutant: the target lies above the entry for SELL as well
C3Entry_TargetAbove(st, balance, candle) ==
    LET entry == candle.open
        dir == st.direction
        sl == IF dir = Some("BUY")
              THEN Min(Val(st.c1).low, Val(st.c2).low)
              ELSE Max(Val(st.c1).high, Val(st.c2).high)
        tp == entry + tp_pips
        size == _calc_size(balance, entry, sl)
    IN  IF size <= 0
        THEN [raised |-> FALSE, st |-> _reset_setup(st),
              result |-> Result(candle, "REJECTED", None)]
        ELSE [raised |-> FALSE,
              st |-> _reset_setup([st EXCEPT !.traded_today = TRUE]),
              result |-> Result(candle, "SIGNAL",
                  Some([epic |-> candle.epic, direction |-> Val(dir),
                        size |-> size, orderType |-> "STOP", level |-> entry,
                        stopLevel |-> sl, profitLevel |-> tp]))]

\* the C3 (entry) step of on_candle_close: c1 and c2 are both set
C3Entry(st, balance, candle) ==
    LET entry == candle.open
        dir == st.direction
        sl == IF dir = Some("BUY")
              THEN Min(Val(st.c1).low, Val(st.c2).low)
              ELSE Max(Val(st.c1).high, Val(st.c2).high)
        tp == IF dir = Some("BUY") THEN entry + tp_pips ELSE entry - tp_pips
        size == _calc_size(balance, entry, sl)
    IN  IF size <= 0
        THEN [raised |-> FALSE, st |-> _reset_setup(st),
              result |-> Result(candle, "REJECTED", None)]
        ELSE [raised |-> FALSE,
              st |-> _reset_setup([st EXCEPT !.traded_today = TRUE]),
              result |-> Result(candle, "SIGNAL",
                  Some([epic |-> candle.epic, direction |-> Val(dir),
                        size |-> size, orderType |-> "STOP", level |-> entry,
                        stopLevel |-> sl, profitLevel |-> tp]))]

\* mutant: a failed acceptance locks the day
C2Acceptance_LocksOnFailure(st, candle) ==
    IF \/ st.direction = Some("BUY") /\ candle.close > Val(st.y_high)
       \/ st.direction = Some("SELL") /\ candle.close < Val(st.y_low)
    THEN [raised |-> FALSE, st |-> [st EXCEPT !.c2 = Some(candle)],
          result |-> Result(candle, "C2", None)]
    ELSE [raised |-> FALSE,
          st |-> _reset_setup([st EXCEPT !.traded_today = TRUE]),
          result |-> Result(candle, "INVALIDATED", None)]

\* mutant: a close beyond the opposite level starts a setup of the opposite
\* direction
C2Acceptance_FlipsDirection(st, candle) ==
    IF \/ st.direction = Some("BUY") /\ candle.close > Val(st.y_high)
       \/ st.direction = Some("SELL") /\ candle.close < Val(st.y_low)
    THEN [raised |-> FALSE, st |-> [st EXCEPT !.c2 = Some(candle)],
          result |-> Result(candle, "C2", None)]
    ELSE IF st.direction = Some("BUY") /\ candle.close < Val(st.y_low)
    THEN [raised |-> FALSE,
          st |-> [st EXCEPT !.c1 = Some(candle), !.direction = Some("SELL")],
          result |-> Result(candle, "C1", None)]
    ELSE IF st.direction = Some("SELL") /\ candle.close > Val(st.y_high)
    THEN [raised |-> FALSE,
          st |-> [st EXCEPT !.c1 = Some(candle), !.direction = Some("BUY")],
          result |-> Result(candle, "C1", None)]
    ELSE [raised |-> FALSE, st |-> _reset_setup(st),
          result |-> Result(candle, "INVALIDATED", None)]

\* the C2 (acceptance) step: c1 is set, c2 is not
C2Acceptance(st, candle) ==
    IF \/ st.direction = Some("BUY") /\ candle.close > Val(st.y_high)
       \/ st.direction = Some("SELL") /\ candle.close < Val(st.y_low)
    THEN [raised |-> FALSE, st |-> [st EXCEPT !.c2 = Some(candle)],
          result |-> Result(candle, "C2", None)]
    ELSE [raised |-> FALSE, st |-> _reset_setup(st),
          result |-> Result(candle, "INVALIDATED", None)]

\* mutant: a close on a level counts as a breakout
C1Breakout_NonStrict(st, candle) ==
    IF candle.close >= Val(st.y_high)
    THEN [raised |-> FALSE,
          st |-> [st EXCEPT !.c1 = Some(candle), !.direction = Some("BUY")],
          result |-> Result(candle, "C1", None)]
    ELSE IF candle.close <= Val(st.y_low)
    THEN [raised |-> FALSE,
          st |-> [st EXCEPT !.c1 = Some(candle), !.direction = Some("SELL")],
          result |-> Result(candle, "C1", None)]
    ELSE [raised |-> FALSE, st |-> st,
          result |-> Result(candle, "NO_TRADE", None)]

\* the C1 (breakout) step: c1 is not set
C1Breakout(st, candle) ==
    IF candle.close > Val(st.y_high)
    THEN [raised |-> FALSE,
          st |-> [st EXCEPT !.c1 = Some(candle), !.direction = Some("BUY")],
          result |-> Result(candle, "C1", None)]
    ELSE IF candle.close < Val(st.y_low)
    THEN [raised |-> FALSE,
          st |-> [st EXCEPT !.c1 = Some(candle), !.direction = Some("SELL")],
          result |-> Result(candle, "C1", None)]
    ELSE [raised |-> FALSE, st |-> st,
          result |-> Result(candle, "NO_TRADE", None)]

\* mutant: after the load the candle falls through to the breakout check
NewTradingDay_FallsThrough(st, csv, candle) ==
    LET load == load_yesterday_levels(st, csv, DateOf(candle.start_time))
    IN  IF load.raised
        THEN [raised |-> TRUE, st |-> st, result |-> None]
        ELSE C1Breakout(load.st, candle)

\* mutant: a failed load is answered with NO_TRADE
NewTradingDay_SwallowsFailure(st, csv, candle) ==
    LET load == load_yesterday_levels(st, csv, DateOf(candle.start_time))
    IN  IF load.raised
        THEN [raised |-> FALSE, st |-> st,
              result |-> Result(candle, "NO_TRADE", None)]
        ELSE [raised |-> FALSE, st |-> load.st,
              result |-> Result(candle, "INIT_DAY", None)]

\* the day-rollover step: the candle's date is not the stored today
NewTradingDay(st, csv, candle) ==
    LET load == load_yesterday_levels(st, csv, DateOf(candle.start_time))
    IN  IF load.raised
        THEN [raised |-> TRUE, st |-> st, result |-> None]
        ELSE [raised |-> FALSE, st |-> load.st,
              result |-> Result(candle, "INIT_DAY", None)]

\* a new trading day is detected
IsNewDay(st, candle) == st.today # Some(DateOf(candle.start_time))

\* mutant: the lock is never consulted
IsBlocked_Never(st) == FALSE

\* mutant: the lock is released when the order call has failed
IsBlocked_UnlessOrderFailed(st) ==
    /\ st.traded_today
    /\ (order_calls # <<>> => order_calls[Len(order_calls)].outcome = "ok")

\* the one-trade-per-day block applies
IsBlocked(st) == st.traded_today

\* mutant: the lock is looked at before the date
on_candle_close_LockFirst(st, balance, csv, candle) ==
    IF IsBlocked(st)
    THEN [raised |-> FALSE, st |-> st,
          result |-> Result(candle, "BLOCKED", None)]
    ELSE IF IsNewDay(st, candle) THEN NewTradingDay(st, csv, candle)
    ELSE IF st.c1 = None THEN C1Breakout(st, candle)
    ELSE IF st.c2 = None THEN C2Acceptance(st, candle)
    ELSE C3Entry(st, balance, candle)

\* mutant: the candle of the rollover is evaluated against the levels just
\* loaded instead of being answered with INIT_DAY
on_candle_close_EvaluatesRolloverCandle(st, balance, csv, candle) ==
    IF IsNewDay(st, candle)
    THEN LET load == load_yesterday_levels(st, csv, DateOf(candle.start_time))
         IN  IF load.raised
             THEN [raised |-> TRUE, st |-> st, result |-> None]
             ELSE C1Breakout(load.st, candle)
    ELSE IF IsBlocked(st)
    THEN [raised |-> FALSE, st |-> st,
          result |-> Result(candle, "BLOCKED", None)]
    ELSE IF st.c1 = None THEN C1Breakout(st, candle)
    ELSE IF st.c2 = None THEN C2Acceptance(st, candle)
    ELSE C3Entry(st, balance, candle)

\* on_candle_close: the strategy state after the call and the result returned,
\* or raised = TRUE when the call raises (the state is then as before)
on_candle_close(st, balance, csv, candle) ==
    IF IsNewDay(st, candle) THEN NewTradingDay(st, csv, candle)
    ELSE IF IsBlocked(st)
    THEN [raised |-> FALSE, st |-> st,
          result |-> Result(candle, "BLOCKED", None)]
    ELSE IF st.c1 = None THEN C1Breakout(st, candle)
    ELSE IF st.c2 = None THEN C2Acceptance(st, candle)
    ELSE C3Entry(st, balance, candle)

-----------------------------------------------------------------------------
(* Inputs *)

\* main streams one epic; the aggregator keys its state by epic
epic_to_use == "GOLD"
Epics == {"GOLD", "BTC"}

\* bid prices, in pips: below, at and above the levels of the file
Bids == {9850, 9900, 9950, 10000}

\* account balances: the constructor's default, and the 0 main falls back to
Balances == {10000, 0}

Row(day, high, low) == [trading_day |-> day, high_bid |-> high, low_bid |-> low]

\* the row update_yesterday_levels appends per day
UsualRows == [i \in 1..(MaxDay + 1) |-> Row(i - 1, 9950, 9900)]

\* levels files: a row for every day; the same day appended twice with
\* different values; the row of Thursday 1970-01-01 absent; a column absent
CsvFiles ==
    { [has_columns |-> TRUE, rows |-> UsualRows],
      [has_columns |-> TRUE,
       rows |-> <<Row(0, 10000, 9850), Row(1, 10000, 9850)>> \o Tail(UsualRows)],
      [has_columns |-> TRUE, rows |-> Tail(UsualRows)],
      [has_columns |-> FALSE, rows |-> UsualRows] }

TickAt(epic, bid, timestamp, delay) ==
    [epic |-> epic, bid |-> bid, timestamp |-> timestamp,
     received_at |-> timestamp + delay]

\* midnight of a day, and whether a time lies on a minute mark that carries input
Midnight(d) == d * 86400
InWindow(t) == DateOf(t) \in Days /\ HourOf(t) = 0 /\ MinuteOf(t) <= MaxMinute

-----------------------------------------------------------------------------
(* on_tick_received *)

SetStrategy(st) ==
    /\ today' = st.today
    /\ traded_today' = st.traded_today
    /\ y_high' = st.y_high
    /\ y_low' = st.y_low
    /\ c1' = st.c1
    /\ c2' = st.c2
    /\ direction' = st.direction
    /\ account_balance' = account_balance

\* strategy.on_candle_close(closed_candle): the strategy's fields, the value
\* returned (signal), the exception raised (error)
CallStrategy(candle) ==
    LET date == DateOf(candle.start_time)
        new_day == IsNewDay(StrategyState, candle)
        r == on_candle_close(StrategyState, account_balance, levels_csv, candle)
        decision == IF r.raised THEN "raised" ELSE r.result.decision
    IN  /\ SetStrategy(r.st)
        /\ signal' = IF r.raised THEN None ELSE Some(r.result)
        /\ last_load' =
               IF new_day
               THEN Some([trading_date |-> date,
                          prev_day |-> load_yesterday_levels(
                              StrategyState, levels_csv, date).prev_day,
                          raised |-> r.raised])
               ELSE last_load
        /\ init_dates' = IF decision = "INIT_DAY"
                         THEN init_dates \cup {date} ELSE init_dates
        /\ last_invalidated' = IF decision = "INVALIDATED"
                               THEN Some(date) ELSE last_invalidated
        /\ signal_dates' = IF decision = "SIGNAL"
                           THEN Append(signal_dates, date) ELSE signal_dates

\* create_working_order: its validation, then the POST, which the broker
\* accepts (response = "ok") or refuses (response = "HTTPError")
create_working_order(order, response) ==
    IF order.direction \notin {"BUY", "SELL"} \/ order.size <= 0
       \/ order.level <= 0 \/ order.orderType \notin {"LIMIT", "STOP"}
    THEN "ValueError"
    ELSE response

\* what leaves on_tick_received after a SIGNAL: the order call's exception,
\* else the TypeError of strategy.c1["start_time"] when c1 (or c2) is None
AfterSignal(outcome) ==
    IF outcome # "ok" THEN Some(outcome)
    ELSE IF c1' = None \/ c2' = None THEN Some("TypeError")
    ELSE None

\* the trade record on_tick_received builds after the order call returned
trade_row(sig) ==
    [trade_date |-> DateOf(sig.time), trade_time |-> sig.time,
     epic |-> Val(sig.order).epic, direction |-> Val(sig.order).direction,
     entry_price |-> Val(sig.order).level,
     c1_time |-> Val(c1').start_time, c2_time |-> Val(c2').start_time,
     status |-> "EXECUTED"]

\* self.c1 = candle, self.c2 = candle, _reset_setup: the objects c1 and c2
\* refer to after on_candle_close was called with the object ref
StoreRefs(ref) ==
    /\ c1_ref' = IF c1' = None THEN None
                 ELSE IF c1' = c1 THEN c1_ref ELSE Some(ref)
    /\ c2_ref' = IF c2' = None THEN None
                 ELSE IF c2' = c2 THEN c2_ref ELSE Some(ref)

OnTickReceived(tick) ==
    /\ tick_count < MaxTicks
    /\ process_tick(tick)
    /\ levels_csv' = levels_csv
    /\ IF closed_candle' = None
       THEN /\ UNCHANGED <<stratVars, histVars, order_calls, trade_book,
                           c1_ref, c2_ref>>
            /\ signal' = None
            /\ error' = None
       ELSE /\ CallStrategy(Val(closed_candle'))
            /\ StoreRefs(<<tick.epic, Val(last_candle_ref'[tick.epic])>>)
            /\ IF signal' # None /\ Val(signal').decision = "SIGNAL"
               THEN \E response \in {"ok", "HTTPError"} :
                      LET outcome == create_working_order(
                                         Val(Val(signal').order), response)
                      IN  /\ order_calls' = Append(order_calls,
                                 [trade_date |-> DateOf(Val(signal').time),
                                  outcome |-> outcome])
                          /\ error' = AfterSignal(outcome)
                          /\ trade_book' =
                                 IF error' = None
                                 THEN Append(trade_book, trade_row(Val(signal')))
                                 ELSE trade_book
               ELSE /\ order_calls' = order_calls
                    /\ trade_book' = trade_book
                    /\ error' = IF signal' = None THEN Some("ValueError")
                                ELSE None

-----------------------------------------------------------------------------
(* CapitalClient: the session, stream_ticks and stop_streaming *)

\* the WebSocketApps stream_ticks can create: those of the stream with its
\* renewals, and one more for the handlers of a single disconnect
ReconnectConnections == MaxConnections + 1
Conns == 1..ReconnectConnections
MainThread == 0
Threads == {MainThread} \cup Conns

\* the epics main passes to stream_ticks
StreamEpics == {epic_to_use}

\* timedelta(minutes=5) and timedelta(hours=23), in seconds
BufferSeconds == 300
SessionLifetime == 82800

\* self.session_expiry and datetime.now(timezone.utc), in seconds since the
\* last login that completed: the clock stands one second before the buffer
\* begins, or (expired) on its first second
session_expiry == IF cst = 0 THEN None ELSE Some(SessionLifetime)
now == IF expired THEN SessionLifetime - BufferSeconds
       ELSE SessionLifetime - BufferSeconds - 1

\* mutant: the buffer's first second still counts as valid
SessionValid_BufferInclusive(c, token, expiry, clock) ==
    IF c = 0 \/ token = 0 THEN FALSE
    ELSE IF expiry = None THEN TRUE
    ELSE clock <= Val(expiry) - BufferSeconds

\* _is_session_valid, of the values it reads
SessionValid(c, token, expiry, clock) ==
    IF c = 0 \/ token = 0 THEN FALSE
    ELSE IF expiry = None THEN TRUE
    ELSE clock < Val(expiry) - BufferSeconds

_is_session_valid == SessionValid(cst, security_token, session_expiry, now)

\* get_websocket_headers after _ensure_valid_session: self.cst and
\* self.security_token as they are when the thread reads them
get_websocket_headers == [cst |-> cst, security_token |-> security_token]

\* the headers of a thread that has read none
NoHeaders == [cst |-> 0, security_token |-> 0]

\* the places where a thread calls get_websocket_headers
HeaderSites == {"on_open", "on_open_subscribe", "resubscribe", "connect"}

\* the places of a thread that is on its way to a new connection
ReconnectPcs == {"reconnect_sleep", "connect_websocket", "connect"}

\* get_websocket_headers may read the session: the session was valid when
\* _ensure_valid_session looked, or the thread's own login has succeeded
Ready(t) == renew[t] = "done" \/ (renew[t] = "no" /\ _is_session_valid)

\* room for the WebSocketApp a reconnecting handler would create
HasCapacityWithin(limit) ==
    Cardinality({c \in Conns : ws_state[c] # "unborn"})
        + Cardinality({t \in Threads : pc[t] \in ReconnectPcs}) < limit

HasCapacity == HasCapacityWithin(MaxConnections)

NextConn == CHOOSE n \in Conns :
                ws_state[n] = "unborn" /\ \A m \in Conns : m < n => ws_state[m] # "unborn"

\* where a thread continues when its handler returns, and when an exception
\* leaves its handler (on the main thread: main's except clauses and finally)
ReturnPc(t) ==
    IF t = MainThread THEN "loop"
    ELSE IF handler[t] = "on_close" THEN "ended" ELSE "run_forever"
RaisePc(t) ==
    IF t = MainThread THEN "stop_streaming"
    ELSE IF handler[t] = "on_close" THEN "ended" ELSE "run_forever"

\* a message as sent: the credentials it was built from, those of the session
\* at that moment, the handler that sent it, the stop flag at that moment
Message(destination, headers, epics, origin) ==
    [destination |-> destination, cst |-> headers.cst,
     security_token |-> headers.security_token, current |-> cst,
     epics |-> epics, origin |-> origin, stop |-> _ws_stop,
     answered |-> None]

\* mutant: the subscribe message reuses the headers read for the ping
SubscribeHeaders_FromPing(local, current) == local

\* subscribe_to_ticks reads the headers anew
SubscribeHeaders(local, current) == current

Subscribed(c) ==
    \E i \in DOMAIN sent[c] : sent[c][i].destination = "marketData.subscribe"

\* the bids of the quote payloads: of the stream with its reconnects and
\* renewals, and of the dispatch of a longer feed on one connection
StreamBids == {9950}
DispatchBids == {9950, 10000}

\* the tick on_message builds from the n-th quote payload
StreamTick(bid) == TickAt(epic_to_use, bid, Midnight(1) + 60 * tick_count, 1)

\* stream_ticks up to its call of connect_websocket
StreamTicks ==
    /\ pc[MainThread] = "stream_ticks"
    /\ _tick_callback' = Some("on_tick_received")
    /\ _ws_active' = FALSE
    /\ _ws_stop' = FALSE
    /\ pc' = [pc EXCEPT ![MainThread] = "connect_websocket"]
    /\ handler' = [handler EXCEPT ![MainThread] = Some("stream_ticks")]
    /\ UNCHANGED <<_ws_instance, cst, security_token, expired, _session_lock,
                   renew, ws_headers,
                   ws_state, sent, streamHist, pipelineVars>>

\* _ensure_valid_session finds the session invalid
EnsureStart(t) ==
    /\ pc[t] \in HeaderSites
    /\ renew[t] = "no"
    /\ ~_is_session_valid
    /\ renew' = [renew EXCEPT ![t] = "wait"]
    /\ UNCHANGED <<clientVars, pc, handler, ws_headers, ws_state, sent,
                   streamHist, pipelineVars>>

\* on_message calls _renew_session after error.invalid.session.token
RenewEnter(c) ==
    /\ pc[c] = "on_message_renew"
    /\ renew[c] = "no"
    /\ renew' = [renew EXCEPT ![c] = "wait"]
    /\ UNCHANGED <<clientVars, pc, handler, ws_headers, ws_state, sent,
                   streamHist, pipelineVars>>

\* _renew_session: with self._session_lock
AcquireLock(t) ==
    /\ renew[t] = "wait"
    /\ _session_lock = None
    /\ _session_lock' = Some(t)
    /\ renew' = [renew EXCEPT ![t] = "login"]
    /\ UNCHANGED pc
    /\ UNCHANGED <<_ws_stop, _ws_active, _tick_callback, _ws_instance, cst,
                   security_token, expired, handler, ws_headers, ws_state, sent,
                   streamHist, pipelineVars>>

\* whether an exception leaving the thread's handler reaches main's except
\* clauses: on the main thread only (on_message catches it, the other
\* callbacks run on the WebSocketApp's thread)
Propagates(t) == t = MainThread

\* login inside _renew_session up to self.cst = r.headers["CST"]; when a
\* request is rejected login raises and the lock is released on the way out
Login(t) ==
    /\ renew[t] = "login"
    /\ \E response \in {"ok", "rejected"} :
         IF response = "ok"
         THEN /\ cst' = cst + 1
              /\ renew' = [renew EXCEPT ![t] = "store"]
              /\ UNCHANGED <<pc, handler, renewal_failures, open_result,
                             reconnect_result, _session_lock>>
         ELSE /\ renew' = [renew EXCEPT ![t] = "no"]
              /\ _session_lock' = None
              /\ renewal_failures' = renewal_failures \cup
                     {[thread |-> t, handler |-> handler[t],
                       propagated |-> Propagates(t)]}
              /\ pc' = [pc EXCEPT ![t] = RaisePc(t)]
              /\ handler' = [handler EXCEPT ![t] = None]
              /\ open_result' = [open_result EXCEPT ![t] =
                     IF handler[t] = Some("on_open") THEN "raised" ELSE @]
              /\ reconnect_result' = [reconnect_result EXCEPT ![t] =
                     IF pc[t] \in ReconnectPcs THEN Some("raised") ELSE @]
              /\ UNCHANGED cst
    /\ UNCHANGED <<_ws_stop, _ws_active, _tick_callback, _ws_instance,
                   security_token, expired, logins_since_expiry,
                   ws_headers, ws_state, sent, quotes, expiries,
                   stopped_callbacks, born_stopped, last_inbound, pipelineVars>>

\* login from self.security_token = r.headers["X-SECURITY-TOKEN"] on: the
\* token of the same response, the new session_expiry, and the lock
\* released as _renew_session returns
LoginStore(t) ==
    /\ renew[t] = "store"
    /\ security_token' = cst
    /\ expired' = FALSE
    /\ logins_since_expiry' = logins_since_expiry + 1
    /\ _session_lock' = None
    /\ renew' = [renew EXCEPT ![t] =
           IF pc[t] = "on_message_renew" THEN "no" ELSE "done"]
    /\ pc' = [pc EXCEPT ![t] =
           IF pc[t] = "on_message_renew" THEN "resubscribe" ELSE @]
    /\ UNCHANGED <<_ws_stop, _ws_active, _tick_callback, _ws_instance, cst,
                   handler, ws_headers, ws_state, sent, quotes, expiries,
                   stopped_callbacks, renewal_failures, born_stopped,
                   last_inbound, open_result, reconnect_result, pipelineVars>>

\* the connection of a WebSocketApp is established: on_open is called
Opens(c) ==
    /\ pc[c] = "run_forever"
    /\ ws_state[c] = "connecting"
    /\ ws_state' = [ws_state EXCEPT ![c] = "open"]
    /\ pc' = [pc EXCEPT ![c] = "on_open"]
    /\ handler' = [handler EXCEPT ![c] = Some("on_open")]
    /\ UNCHANGED <<clientVars, renew, ws_headers, sent, streamHist, pipelineVars>>

\* on_open: the headers and the ping
OnOpenPing(c) ==
    /\ pc[c] = "on_open"
    /\ Ready(c)
    /\ renew' = [renew EXCEPT ![c] = "no"]
    /\ IF ws_state[c] = "open"
       THEN /\ sent' = [sent EXCEPT ![c] =
                   Append(@, Message("ping", get_websocket_headers, {},
                                     "on_open"))]
            /\ ws_headers' = [ws_headers EXCEPT ![c] = get_websocket_headers]
            /\ pc' = [pc EXCEPT ![c] = "on_open_subscribe"]
            /\ UNCHANGED <<handler, open_result>>
       ELSE \* ws.send raises: the connection was closed by stop_streaming
            /\ pc' = [pc EXCEPT ![c] = "run_forever"]
            /\ handler' = [handler EXCEPT ![c] = None]
            /\ open_result' = [open_result EXCEPT ![c] = "raised"]
            /\ UNCHANGED <<sent, ws_headers>>
    /\ UNCHANGED <<clientVars, ws_state, quotes, expiries, logins_since_expiry,
                   stopped_callbacks, renewal_failures, born_stopped, last_inbound, reconnect_result,
                   pipelineVars>>

\* on_open after its sleep: subscribe_to_ticks, then _ws_active = True
OnOpenSubscribe(c) ==
    /\ pc[c] = "on_open_subscribe"
    /\ Ready(c)
    /\ renew' = [renew EXCEPT ![c] = "no"]
    /\ pc' = [pc EXCEPT ![c] = "run_forever"]
    /\ handler' = [handler EXCEPT ![c] = None]
    /\ IF ws_state[c] = "open"
       THEN /\ sent' = [sent EXCEPT ![c] =
                   Append(@, Message("marketData.subscribe",
                                     SubscribeHeaders(ws_headers[c],
                                         get_websocket_headers),
                                     StreamEpics, "on_open"))]
            /\ _ws_active' = TRUE
            /\ open_result' = [open_result EXCEPT ![c] = "completed"]
       ELSE /\ open_result' = [open_result EXCEPT ![c] = "raised"]
            /\ UNCHANGED <<sent, _ws_active>>
    /\ UNCHANGED <<_ws_stop, _tick_callback, _ws_instance, cst, security_token, expired,
                   _session_lock, ws_headers, ws_state, quotes, expiries,
                   logins_since_expiry, stopped_callbacks, renewal_failures,
                   born_stopped, last_inbound, reconnect_result, pipelineVars>>

\* the exception classes that derive from Exception
Exceptions == {"ValueError", "TypeError", "KeyError", "HTTPError",
               "JSONDecodeError"}

\* mutant: the handler around the tick callback catches ValueError only
CallbackCaught_ValueErrorOnly(exc) == exc = "ValueError"

\* on_message: try: self._tick_callback(tick_data) except Exception
CallbackCaught(exc) == exc \in Exceptions

\* mutant: the handler around on_message's body catches KeyError only
MessageCaught_KeyErrorOnly(exc) == exc = "KeyError"

\* on_message: try: ... except Exception around its whole body
MessageCaught(exc) == exc \in Exceptions

\* on_message, destination quote: the message is dropped when the stop flag
\* is set
QuoteDropped(stop) == stop

\* an inbound message: whether json.loads accepts it, its destination, the
\* keys of its payload (None: the key is absent)
Raw(kind, json, destination, payload) ==
    [kind |-> kind, json |-> json, destination |-> destination,
     payload |-> payload]
Payload(epic, timestamp) == Some([epic |-> epic, timestamp |-> timestamp])

ValidQuote == Raw("quote", TRUE, Some("quote"), Payload(Some(epic_to_use), Some(0)))

\* invalid JSON, an unknown destination, a quote without payload, without
\* epic, without timestamp
MalformedMessages ==
    { Raw("invalid_json", FALSE, None, None),
      Raw("unknown_destination", TRUE, Some("heartbeat"), None),
      Raw("quote_without_payload", TRUE, Some("quote"), None),
      Raw("quote_without_epic", TRUE, Some("quote"), Payload(None, Some(0))),
      Raw("quote_without_timestamp", TRUE, Some("quote"),
          Payload(Some(epic_to_use), None)) }

Routed(to, exception) == [to |-> to, exception |-> exception]

\* on_message up to the tick callback: json.loads, the destination, the stop
\* flag, msg["payload"], p["epic"], p["timestamp"]
Route(raw, stop) ==
    IF ~raw.json THEN Routed("raise", Some("JSONDecodeError"))
    ELSE IF raw.destination = Some("ping") THEN Routed("return", None)
    ELSE IF raw.destination = Some("marketData.subscribe")
    THEN Routed("subscribe", None)
    ELSE IF raw.destination = Some("quote")
    THEN IF QuoteDropped(stop) THEN Routed("return", None)
         ELSE IF raw.payload = None THEN Routed("raise", Some("KeyError"))
         ELSE IF Val(raw.payload).epic = None
         THEN Routed("raise", Some("KeyError"))
         ELSE IF Val(raw.payload).timestamp = None
         THEN Routed("raise", Some("KeyError"))
         ELSE Routed("callback", None)
    ELSE Routed("return", None)

\* what on_message did with the n-th message delivered: the exception raised
\* while handling it and whether it left on_message
Handled(n, kind, exception, caught) ==
    Some([n |-> n, kind |-> kind, exception |-> exception,
          escaped |-> exception # None /\ ~caught])

\* a quote message arrives: on_message up to its look at the stop flag and
\* the tick it builds
QuoteWithin(c, limit) ==
    /\ pc[c] = "run_forever"
    /\ ws_state[c] = "open"
    /\ Subscribed(c)
    /\ quotes < limit
    /\ quotes' = quotes + 1
    /\ IF Route(ValidQuote, _ws_stop).to = "callback"
       THEN /\ pc' = [pc EXCEPT ![c] = "on_message_callback"]
            /\ handler' = [handler EXCEPT ![c] = Some("on_message")]
       ELSE UNCHANGED <<pc, handler>>
    /\ UNCHANGED <<clientVars, renew, ws_headers, ws_state, sent, expiries,
                   logins_since_expiry, stopped_callbacks, renewal_failures,
                   born_stopped, last_inbound, open_result, reconnect_result,
                   pipelineVars>>

Quote(c) == QuoteWithin(c, MaxQuotes)

\* a message arrives that on_message cannot route to the tick callback
Malformed(c) ==
    /\ pc[c] = "run_forever"
    /\ ws_state[c] = "open"
    /\ quotes < MaxDispatchQuotes
    /\ quotes' = quotes + 1
    /\ \E raw \in MalformedMessages :
         LET r == Route(raw, _ws_stop)
         IN  /\ last_inbound' = Handled(quotes + 1, raw.kind, r.exception,
                    r.exception # None /\ MessageCaught(Val(r.exception)))
             /\ IF r.to = "callback"
                THEN /\ pc' = [pc EXCEPT ![c] = "on_message_callback"]
                     /\ handler' = [handler EXCEPT ![c] = Some("on_message")]
                ELSE UNCHANGED <<pc, handler>>
    /\ UNCHANGED <<clientVars, renew, ws_headers, ws_state, sent, expiries,
                   logins_since_expiry, stopped_callbacks, renewal_failures,
                   born_stopped, open_result, reconnect_result, pipelineVars>>

\* on_message calls self._tick_callback(tick_data) inside try / except
\* Exception; with the callback cleared the call raises TypeError
TickCallbackOf(c, bids) ==
    /\ pc[c] = "on_message_callback"
    /\ pc' = [pc EXCEPT ![c] = "run_forever"]
    /\ handler' = [handler EXCEPT ![c] = None]
    /\ IF _tick_callback # None
       THEN /\ \E bid \in bids : OnTickReceived(StreamTick(bid))
            /\ stopped_callbacks' =
                   stopped_callbacks + (IF _ws_stop THEN 1 ELSE 0)
            /\ last_inbound' = Handled(quotes, "quote", error',
                   error' # None /\ CallbackCaught(Val(error')))
       ELSE /\ UNCHANGED <<pipelineVars, stopped_callbacks>>
            /\ last_inbound' = Handled(quotes, "quote", Some("TypeError"),
                   CallbackCaught("TypeError"))
    /\ UNCHANGED <<clientVars, renew, ws_headers, ws_state, sent, quotes,
                   expiries, logins_since_expiry, renewal_failures,
                   born_stopped, open_result, reconnect_result>>

TickCallback(c) == TickCallbackOf(c, StreamBids)

\* the error codes of a failed marketData.subscribe response
ErrorCodes == {"error.invalid.session.token", "error.not-found.epic"}

\* mutant: every failed subscription is taken for an expired session
RenewsFor_AnyCode(error_code) == TRUE

\* on_message: if error_code == "error.invalid.session.token"
RenewsFor(error_code) == error_code = "error.invalid.session.token"

\* a marketData.subscribe response whose status is not OK arrives: the
\* server answers each subscribe message once, and with
\* error.invalid.session.token only when the session has expired
SubscribeRefused(c) ==
    /\ pc[c] = "run_forever"
    /\ ws_state[c] = "open"
    /\ Len(sent[c]) > 0
    /\ sent[c][Len(sent[c])].destination = "marketData.subscribe"
    /\ sent[c][Len(sent[c])].answered = None
    /\ \E error_code \in ErrorCodes :
         /\ error_code = "error.invalid.session.token" => expired
         /\ sent' = [sent EXCEPT ![c][Len(sent[c])].answered = Some(error_code)]
         /\ IF RenewsFor(error_code)
            THEN /\ pc' = [pc EXCEPT ![c] = "on_message_renew"]
                 /\ handler' = [handler EXCEPT ![c] = Some("on_message")]
            ELSE UNCHANGED <<pc, handler>>
    /\ UNCHANGED <<clientVars, renew, ws_headers, ws_state, streamHist,
                   pipelineVars>>

\* on_message: subscribe_to_ticks after the renewal
Resubscribe(c) ==
    /\ pc[c] = "resubscribe"
    /\ Ready(c)
    /\ renew' = [renew EXCEPT ![c] = "no"]
    /\ pc' = [pc EXCEPT ![c] = "run_forever"]
    /\ handler' = [handler EXCEPT ![c] = None]
    /\ sent' = IF ws_state[c] = "open"
               THEN [sent EXCEPT ![c] =
                        Append(@, Message("marketData.subscribe",
                                          get_websocket_headers,
                                          StreamEpics, "on_message"))]
               ELSE sent
    /\ UNCHANGED <<clientVars, ws_headers, ws_state, streamHist, pipelineVars>>

\* a transport error: on_error up to its first look at the stop flag
ErrorWithin(c, limit) ==
    /\ pc[c] = "run_forever"
    /\ ws_state[c] \in {"connecting", "open"}
    /\ _ws_stop \/ HasCapacityWithin(limit)
    /\ ws_state' = [ws_state EXCEPT ![c] = "errored"]
    /\ IF _ws_stop
       THEN UNCHANGED <<pc, handler, reconnect_result>>
       ELSE /\ pc' = [pc EXCEPT ![c] = "reconnect_sleep"]
            /\ handler' = [handler EXCEPT ![c] = Some("on_error")]
            /\ reconnect_result' = [reconnect_result EXCEPT ![c] = None]
    /\ UNCHANGED <<clientVars, renew, ws_headers, sent, quotes, expiries,
                   logins_since_expiry, stopped_callbacks, renewal_failures,
                   born_stopped, last_inbound, open_result, pipelineVars>>

\* the connection is closed: on_close up to its first look at the stop flag
CloseWithin(c, limit) ==
    /\ pc[c] = "run_forever"
    /\ ws_state[c] \in {"connecting", "open", "errored", "closing"}
    /\ _ws_stop \/ HasCapacityWithin(limit)
    /\ ws_state' = [ws_state EXCEPT ![c] = "closed"]
    /\ _ws_active' = FALSE
    /\ IF _ws_stop
       THEN /\ pc' = [pc EXCEPT ![c] = "ended"]
            /\ UNCHANGED <<handler, reconnect_result>>
       ELSE /\ pc' = [pc EXCEPT ![c] = "reconnect_sleep"]
            /\ handler' = [handler EXCEPT ![c] = Some("on_close")]
            /\ reconnect_result' = [reconnect_result EXCEPT ![c] = None]
    /\ UNCHANGED <<_ws_stop, _tick_callback, _ws_instance, cst, security_token, expired,
                   _session_lock, renew, ws_headers, sent, quotes, expiries,
                   logins_since_expiry, stopped_callbacks, renewal_failures,
                   born_stopped, last_inbound, open_result, pipelineVars>>

Error(c) == ErrorWithin(c, MaxConnections)
Close(c) == CloseWithin(c, MaxConnections)

\* a handler returns without a new connection because the stop flag is set
ReturnStopped(t) ==
    /\ pc' = [pc EXCEPT ![t] = ReturnPc(t)]
    /\ handler' = [handler EXCEPT ![t] = None]
    /\ reconnect_result' = [reconnect_result EXCEPT ![t] = Some("stopped")]

\* mutant: the handler does not reconnect
Reconnects_Never(stop) == FALSE

\* on_error / on_close after time.sleep(reconnect_delay): reconnect unless the
\* stop flag is set
Reconnects(stop) == ~stop

ReconnectWake(t) ==
    /\ pc[t] = "reconnect_sleep"
    /\ IF Reconnects(_ws_stop)
       THEN /\ pc' = [pc EXCEPT ![t] = "connect_websocket"]
            /\ UNCHANGED <<handler, reconnect_result>>
       ELSE ReturnStopped(t)
    /\ UNCHANGED <<clientVars, renew, ws_headers, ws_state, sent, quotes,
                   expiries, logins_since_expiry, stopped_callbacks,
                   renewal_failures, born_stopped, last_inbound, open_result, pipelineVars>>

\* connect_websocket: its look at the stop flag
ConnectCheck(t) ==
    /\ pc[t] = "connect_websocket"
    /\ IF _ws_stop
       THEN ReturnStopped(t)
       ELSE /\ pc' = [pc EXCEPT ![t] = "connect"]
            /\ UNCHANGED <<handler, reconnect_result>>
    /\ UNCHANGED <<clientVars, renew, ws_headers, ws_state, sent, quotes,
                   expiries, logins_since_expiry, stopped_callbacks,
                   renewal_failures, born_stopped, last_inbound, open_result, pipelineVars>>

\* connect_websocket: the headers, the new WebSocketApp, its thread
Connect(t) ==
    /\ pc[t] = "connect"
    /\ Ready(t)
    /\ \E n \in Conns : ws_state[n] = "unborn"
    /\ LET n == NextConn
       IN  /\ ws_state' = [ws_state EXCEPT ![n] = "connecting"]
           /\ pc' = [pc EXCEPT ![t] = ReturnPc(t), ![n] = "run_forever"]
           /\ _ws_instance' = Some(n)
           /\ born_stopped' = [born_stopped EXCEPT ![n] = _ws_stop]
    /\ renew' = [renew EXCEPT ![t] = "no"]
    /\ handler' = [handler EXCEPT ![t] = None]
    /\ reconnect_result' = [reconnect_result EXCEPT ![t] = Some("connected")]
    /\ UNCHANGED <<_ws_stop, _ws_active, _tick_callback, cst, security_token, expired,
                   _session_lock, ws_headers, sent, quotes, expiries,
                   logins_since_expiry, stopped_callbacks, renewal_failures, last_inbound,
                   open_result, pipelineVars>>

\* main leaves its loop (KeyboardInterrupt) and reaches its finally clause
Interrupt ==
    /\ pc[MainThread] = "loop"
    /\ pc' = [pc EXCEPT ![MainThread] = "stop_streaming"]
    /\ UNCHANGED <<clientVars, handler, renew, ws_headers, ws_state, sent,
                   streamHist, pipelineVars>>

\* stop_streaming: the stop flag
StopSet ==
    /\ pc[MainThread] = "stop_streaming"
    /\ _ws_stop' = TRUE
    /\ _ws_active' = FALSE
    /\ pc' = [pc EXCEPT ![MainThread] = "stop_close"]
    /\ UNCHANGED <<_tick_callback, _ws_instance, cst, security_token, expired, _session_lock,
                   handler, renew, ws_headers, ws_state, sent, streamHist,
                   pipelineVars>>

\* stop_streaming: self._ws_instance.close()
StopClose ==
    /\ pc[MainThread] = "stop_close"
    /\ ws_state' =
           IF _ws_instance # None
              /\ ws_state[Val(_ws_instance)] \in {"connecting", "open"}
           THEN [ws_state EXCEPT ![Val(_ws_instance)] = "closing"]
           ELSE ws_state
    /\ pc' = [pc EXCEPT ![MainThread] = "stop_clear"]
    /\ UNCHANGED <<clientVars, handler, renew, ws_headers, sent, streamHist,
                   pipelineVars>>

\* stop_streaming: self._tick_callback = None
StopClear ==
    /\ pc[MainThread] = "stop_clear"
    /\ _tick_callback' = None
    /\ pc' = [pc EXCEPT ![MainThread] = "stopped"]
    /\ UNCHANGED <<_ws_stop, _ws_active, _ws_instance, cst, security_token, expired,
                   _session_lock, handler, renew, ws_headers, ws_state, sent,
                   streamHist, pipelineVars>>

\* the clock passes session_expiry - 5 minutes
Expires ==
    /\ expiries < MaxExpiries
    /\ ~expired
    /\ pc[MainThread] # "stream_ticks"
    /\ expired' = TRUE
    /\ expiries' = expiries + 1
    /\ logins_since_expiry' = 0
    /\ UNCHANGED <<_ws_stop, _ws_active, _tick_callback, _ws_instance, cst, security_token,
                   _session_lock, threadVars, quotes, stopped_callbacks,
                   renewal_failures, born_stopped, last_inbound, open_result, reconnect_result,
                   pipelineVars>>

\* the state of the client when main calls stream_ticks (after its login)
InitClient ==
    /\ _ws_stop = FALSE
    /\ _ws_active = FALSE
    /\ _tick_callback = None
    /\ _ws_instance = None
    /\ cst = 1
    /\ security_token = 1
    /\ expired = FALSE
    /\ _session_lock = None
    /\ pc = [t \in Threads |-> IF t = MainThread THEN "stream_ticks" ELSE "unborn"]
    /\ handler = [t \in Threads |-> None]
    /\ renew = [t \in Threads |-> "no"]
    /\ ws_headers = [c \in Conns |-> NoHeaders]
    /\ ws_state = [c \in Conns |-> "unborn"]
    /\ sent = [c \in Conns |-> <<>>]
    /\ quotes = 0
    /\ expiries = 0
    /\ logins_since_expiry = 0
    /\ stopped_callbacks = 0
    /\ renewal_failures = {}
    /\ born_stopped = [c \in Conns |-> FALSE]
    /\ open_result = [c \in Conns |-> "none"]
    /\ reconnect_result = [t \in Threads |-> None]
    /\ last_inbound = None

\* a step of a thread inside a handler
ThreadStep(t) ==
    \/ EnsureStart(t)
    \/ AcquireLock(t)
    \/ Login(t)
    \/ LoginStore(t)
    \/ ReconnectWake(t)
    \/ ConnectCheck(t)
    \/ Connect(t)

ConnStep(c) ==
    \/ RenewEnter(c)
    \/ OnOpenPing(c)
    \/ OnOpenSubscribe(c)
    \/ TickCallback(c)
    \/ Resubscribe(c)

\* what arrives on a connection
ConnEvent(c) ==
    \/ Opens(c)
    \/ Quote(c)
    \/ SubscribeRefused(c)
    \/ Error(c)
    \/ Close(c)

NextStream ==
    \/ StreamTicks
    \/ Interrupt
    \/ StopSet
    \/ StopClose
    \/ StopClear
    \/ Expires
    \/ \E t \in Threads : ThreadStep(t)
    \/ \E c \in Conns : ConnStep(c)
    \/ \E c \in Conns : ConnEvent(c)

-----------------------------------------------------------------------------
(* The pipeline as main runs it: resolution MINUTE, one epic *)

InitCommon ==
    /\ candle_data = [e \in Epics |-> None]
    /\ current_candle_start = [e \in Epics |-> None]
    /\ last_candle = [e \in Epics |-> None]
    /\ last_price = [e \in Epics |-> None]
    /\ last_tick = [e \in Epics |-> None]
    /\ tick_count = 0
    /\ last_candle_time = None
    /\ today = None
    /\ traded_today = FALSE
    /\ y_high = None
    /\ y_low = None
    /\ c1 = None
    /\ c2 = None
    /\ direction = None
    /\ closed_candle = None
    /\ signal = None
    /\ error = None
    /\ order_calls = <<>>
    /\ trade_book = <<>>
    /\ signal_dates = <<>>
    /\ init_dates = {}
    /\ last_invalidated = None
    /\ last_load = None
    /\ bucket_bids = [e \in Epics |-> <<>>]
    /\ dict_count = [e \in Epics |-> 0]
    /\ candle_ref = [e \in Epics |-> None]
    /\ last_candle_ref = [e \in Epics |-> None]
    /\ returned_refs = [e \in Epics |-> {}]
    /\ written_ref = None
    /\ c1_ref = None
    /\ c2_ref = None

Init ==
    /\ InitCommon
    /\ InitClient
    /\ resolution_seconds = _get_resolution_second("MINUTE")
    /\ account_balance \in Balances
    /\ levels_csv \in CsvFiles

\* the feed of the pipeline: the first tick at a midnight; each later tick on
\* the next minute mark, at the next midnight, or (after a tick on a minute
\* mark) 30 seconds into the same minute
PipelineBids == {9950, 10000}
PipelineTimes ==
    IF last_tick[epic_to_use] = None
    THEN {Midnight(d) : d \in Days}
    ELSE LET t == Val(last_tick[epic_to_use]).timestamp
         IN  {u \in {t + 60 - SecondOf(t), Midnight(DateOf(t) + 1)} : InWindow(u)}
               \cup {u \in {t + 30} : SecondOf(t) = 0}

Next ==
    \E b \in PipelineBids, t \in PipelineTimes :
        /\ OnTickReceived(TickAt(epic_to_use, b, t, 1))
        /\ UNCHANGED streamVars

Spec == Init /\ [][Next]_vars

-----------------------------------------------------------------------------
(* The strategy alone: on_candle_close called with the closed candles of one
   epic, in the order the aggregator returns them (start_time increasing) *)

\* a closed MINUTE candle whose ticks were open, then close
ClosedCandle(start_time, open, close) ==
    [open |-> open, high |-> Max(open, close), low |-> Min(open, close),
     close |-> close, volume |-> IF open = close THEN 1 ELSE 2,
     start_time |-> start_time,
     last_update |-> IF open = close THEN None ELSE Some(start_time + 59),
     epic |-> epic_to_use, end_time |-> start_time + 60,
     closed_at |-> start_time + 60]

CandleTimes ==
    IF closed_candle = None
    THEN {Midnight(d) : d \in 1..MaxStrategyDay}
    ELSE LET t == Val(closed_candle).start_time
         IN  {u \in {t + 60, Midnight(DateOf(t) + 1)} :
                 InWindow(u) /\ DateOf(u) <= MaxStrategyDay}

CandleClosed(candle) ==
    /\ closed_candle' = Some(candle)
    /\ CallStrategy(candle)
    /\ error' = IF signal' = None THEN Some("ValueError") ELSE None
    /\ UNCHANGED <<aggVars, levels_csv, order_calls, trade_book, bucket_bids,
                   aggRefs, c1_ref, c2_ref, streamVars>>

NextStrategy ==
    \E o \in Bids, c \in Bids, t \in CandleTimes :
        CandleClosed(ClosedCandle(t, o, c))

SpecStrategy == Init /\ [][NextStrategy]_vars

-----------------------------------------------------------------------------
(* The strategy with a levels file that load_yesterday_levels fails on: the
   row of Thursday 1970-01-01 absent (Friday's load fails, Saturday's
   succeeds), the row of Friday absent (Saturday's load fails after a day of
   trading), a column absent (every load fails) *)

FailingCsvFiles ==
    { [has_columns |-> TRUE, rows |-> Tail(UsualRows)],
      [has_columns |-> TRUE,
       rows |-> <<UsualRows[1]>> \o Tail(Tail(UsualRows))],
      [has_columns |-> FALSE, rows |-> UsualRows] }

InitLevels ==
    /\ InitCommon
    /\ InitClient
    /\ resolution_seconds = _get_resolution_second("MINUTE")
    /\ account_balance = 10000
    /\ levels_csv \in FailingCsvFiles

SpecLevels == InitLevels /\ [][NextStrategy]_vars

-----------------------------------------------------------------------------
(* The aggregator alone: process_tick for two epics, at every resolution *)

\* the largest multiple of the resolution at or below a timestamp
FloorTo(t, rs) == t - (t % rs)

InitAgg ==
    /\ InitCommon
    /\ InitClient
    /\ \E r \in Resolutions : resolution_seconds = _get_resolution_second(r)
    /\ account_balance \in {10000}
    /\ levels_csv \in {[has_columns |-> TRUE, rows |-> UsualRows]}

\* the feed of an epic: its first tick at 05:30:30 or at 00:00:00 of day 1;
\* then one second before the in-progress candle's start (a late tick), one
\* second after it, or exactly on the next multiple of the resolution
AggTimes(epic) ==
    IF last_tick[epic] = None
    THEN {Midnight(1) + 19830, Midnight(1)}
    ELSE LET cs == Val(current_candle_start[epic])
         IN  {cs - 1, cs + 1,
              FloorTo(cs, resolution_seconds) + resolution_seconds}

AggBids == {9900, 9950, 10000}

ProcessTick(tick) ==
    /\ tick_count < MaxAggTicks
    /\ process_tick(tick)
    /\ UNCHANGED <<stratVars, histVars, levels_csv, signal, error, order_calls,
                   trade_book, c1_ref, c2_ref, streamVars>>

NextAgg ==
    \E e \in Epics, b \in AggBids :
        \E t \in AggTimes(e) : ProcessTick(TickAt(e, b, t, 1))

SpecAgg == InitAgg /\ [][NextAgg]_vars

-----------------------------------------------------------------------------
(* The stream: the main thread, the WebSocketApp threads and what arrives on
   the connections; the tick callback is on_tick_received *)

\* the aggregator and the strategy as main constructs them
InitCallback ==
    /\ InitCommon
    /\ resolution_seconds = _get_resolution_second("MINUTE")
    /\ account_balance = 10000
    /\ levels_csv = [has_columns |-> TRUE, rows |-> UsualRows]

InitStream ==
    /\ InitCallback
    /\ InitClient

SpecStream == InitStream /\ [][NextStream]_vars

\* every thread that is inside a handler keeps running
SpecStreamLive ==
    /\ InitStream
    /\ [][NextStream]_vars
    /\ \A t \in Threads : WF_vars(ThreadStep(t))

-----------------------------------------------------------------------------
(* The dispatch: one connection, the messages arriving on it handed by
   on_message to on_tick_received, until main stops the stream; the levels
   file has a row for every day, or lacks the row of Thursday 1970-01-01 *)

InitDispatch ==
    /\ InitCommon
    /\ InitClient
    /\ resolution_seconds = _get_resolution_second("MINUTE")
    /\ account_balance = 10000
    /\ levels_csv \in {[has_columns |-> TRUE, rows |-> UsualRows],
                       [has_columns |-> TRUE, rows |-> Tail(UsualRows)]}

NextDispatch ==
    \/ StreamTicks
    \/ ConnectCheck(MainThread)
    \/ Connect(MainThread)
    \/ Interrupt
    \/ StopSet
    \/ StopClose
    \/ StopClear
    \/ \E c \in Conns :
           \/ Opens(c)
           \/ OnOpenPing(c)
           \/ OnOpenSubscribe(c)
           \/ QuoteWithin(c, MaxDispatchQuotes)
           \/ Malformed(c)
           \/ TickCallbackOf(c, DispatchBids)

SpecDispatch == InitDispatch /\ [][NextDispatch]_vars

-----------------------------------------------------------------------------
(* The session under concurrent callers: two connections are open (a
   transport error made on_error and on_close each reconnect); the first has
   subscribed, on the second on_open has just been called *)

InitSession ==
    /\ InitCallback
    /\ _ws_stop = FALSE
    /\ _ws_active = TRUE
    /\ _tick_callback = Some("on_tick_received")
    /\ _ws_instance = Some(2)
    /\ cst = 1
    /\ security_token = 1
    /\ expired = FALSE
    /\ _session_lock = None
    /\ pc = [t \in Threads |->
                IF t = MainThread THEN "loop"
                ELSE IF t = 1 THEN "run_forever"
                ELSE IF t = 2 THEN "on_open" ELSE "unborn"]
    /\ handler = [t \in Threads |-> IF t = 2 THEN Some("on_open") ELSE None]
    /\ ws_state = [c \in Conns |-> IF c <= 2 THEN "open" ELSE "unborn"]
    /\ sent = [c \in Conns |->
                IF c = 1
                THEN <<Message("ping", [cst |-> 1, security_token |-> 1], {},
                               "on_open"),
                       Message("marketData.subscribe",
                               [cst |-> 1, security_token |-> 1],
                               StreamEpics, "on_open")>>
                ELSE <<>>]
    /\ open_result = [c \in Conns |-> IF c = 1 THEN "completed" ELSE "none"]
    /\ renew = [t \in Threads |-> "no"]
    /\ ws_headers = [c \in Conns |->
                       IF c = 1 THEN [cst |-> 1, security_token |-> 1]
                       ELSE NoHeaders]
    /\ quotes = 0
    /\ expiries = 0
    /\ logins_since_expiry = 0
    /\ stopped_callbacks = 0
    /\ renewal_failures = {}
    /\ born_stopped = [c \in Conns |-> FALSE]
    /\ reconnect_result = [t \in Threads |-> None]
    /\ last_inbound = None

NextSession ==
    \/ Expires
    \/ \E c \in Conns :
           \/ SubscribeRefused(c)
           \/ RenewEnter(c)
           \/ EnsureStart(c)
           \/ AcquireLock(c)
           \/ Login(c)
           \/ LoginStore(c)
           \/ OnOpenPing(c)
           \/ OnOpenSubscribe(c)
           \/ Resubscribe(c)
           \/ Quote(c)
           \/ TickCallback(c)

SpecSession == InitSession /\ [][NextSession]_vars

-----------------------------------------------------------------------------
(* The handlers of a disconnect: the stream is started and not stopped; a
   transport error calls on_error and then on_close on the connection's
   thread, a close without error calls on_close alone *)

NextReconnect ==
    \/ StreamTicks
    \/ \E t \in Threads :
           \/ ReconnectWake(t)
           \/ ConnectCheck(t)
           \/ Connect(t)
    \/ \E c \in Conns :
           \/ Opens(c)
           \/ OnOpenPing(c)
           \/ OnOpenSubscribe(c)
           \/ ErrorWithin(c, ReconnectConnections)
           \/ CloseWithin(c, ReconnectConnections)

SpecReconnect == InitStream /\ [][NextReconnect]_vars

-----------------------------------------------------------------------------
(* Claims *)

Decision(sig) == IF sig = None THEN "none" ELSE Val(sig).decision
CandleDate(cc) == DateOf(Val(cc).start_time)

\* C1: end to end, at most one SIGNAL result is produced per calendar date:
\* the dates of the SIGNAL results so far are pairwise different.
C1_AtMostOneSignalPerDay ==
    \A i, j \in DOMAIN signal_dates :
        i # j => signal_dates[i] # signal_dates[j]

\* C1 witness: a SIGNAL was produced on a date and two more candles of that
\* date have been handled since (enough for a second setup to start).
C1_Witness ==
    /\ closed_candle # None
    /\ CandleDate(closed_candle) \in Range(signal_dates)
    /\ Decision(signal) = "BLOCKED"
    /\ Val(closed_candle).close > Val(y_high)
    /\ MinuteOf(Val(closed_candle).start_time) >= 5

\* C2: once a SIGNAL was returned for a date, every later on_candle_close call
\* with a candle of that date returns BLOCKED and changes no strategy field.
C2_BlockedAfterSignal ==
    [][ (closed_candle' # None /\ CandleDate(closed_candle') \in Range(signal_dates))
        => /\ Decision(signal') = "BLOCKED"
           /\ UNCHANGED <<today, y_high, y_low, c1, c2, direction, traded_today>>
      ]_vars

\* C2 witness: a BLOCKED result for a candle that closed above yesterday's high
\* with an open below its close (it would otherwise qualify as a breakout).
C2_Witness ==
    /\ Decision(signal) = "BLOCKED"
    /\ CandleDate(closed_candle) \in Range(signal_dates)
    /\ Val(closed_candle).close > Val(y_high)
    /\ Val(closed_candle).open < Val(closed_candle).close

\* C3: the decisions of a day are sequential: C1 is returned only for a date
\* whose INIT_DAY was returned before and while no C1 is recorded; C2 only
\* right after the C1 of the same date, while c1 is recorded; SIGNAL only right
\* after the C2 of the same date, while c1 and c2 are recorded.
C3_Sequential ==
    [][ /\ Decision(signal') = "C1"
            => /\ CandleDate(closed_candle') \in init_dates
               /\ today = Some(CandleDate(closed_candle'))
               /\ c1 = None
        /\ Decision(signal') = "C2"
            => /\ Decision(signal) = "C1"
               /\ DateOf(Val(signal).time) = CandleDate(closed_candle')
               /\ c1 # None /\ c2 = None
        /\ Decision(signal') = "SIGNAL"
            => /\ Decision(signal) = "C2"
               /\ DateOf(Val(signal).time) = CandleDate(closed_candle')
               /\ c1 # None /\ c2 # None
      ]_vars

\* C3 witness: a SIGNAL has been returned (after INIT_DAY, C1 and C2).
C3_Witness ==
    /\ Decision(signal) = "SIGNAL"
    /\ CandleDate(closed_candle) \in init_dates

\* C4: traded_today goes from false to true only in the step that returns
\* SIGNAL, and only on a date that had no SIGNAL before; it goes from true to
\* false only in a day rollover whose load succeeded (INIT_DAY, a new today).
C4_LockTransitions ==
    [][ /\ (~traded_today /\ traded_today')
            => /\ Decision(signal') = "SIGNAL"
               /\ today' = Some(CandleDate(closed_candle'))
               /\ CandleDate(closed_candle') \notin Range(signal_dates)
        /\ (traded_today /\ ~traded_today')
            => /\ Decision(signal') = "INIT_DAY"
               /\ today' # today
               /\ today' = Some(CandleDate(closed_candle'))
               /\ Val(last_load').raised = FALSE
      ]_vars

\* C4 witness: a rollover has just released the lock of the previous day.
C4_Witness ==
    /\ Decision(signal) = "INIT_DAY"
    /\ ~traded_today
    /\ signal_dates # <<>>
    /\ signal_dates[Len(signal_dates)] + 1 = CandleDate(closed_candle)

\* the previous call left a C1 recorded, no C2, and the day unlocked
AwaitingC2 == c1 # None /\ c2 = None /\ ~traded_today

\* a candle that does not continue the recorded breakout side
NonConfirming(candle) ==
    \/ direction = Some("BUY") /\ candle.close <= Val(y_high)
    \/ direction = Some("SELL") /\ candle.close >= Val(y_low)

\* C5: a C1 followed by a non-confirming candle of the same day returns
\* INVALIDATED; INVALIDATED is returned only then, clears c1, c2 and direction
\* and leaves traded_today false (a later SIGNAL on that day: the witness).
C5_InvalidationDoesNotLock ==
    [][ LET candle == Val(closed_candle')
        IN  /\ (AwaitingC2 /\ today = Some(DateOf(candle.start_time))
                /\ NonConfirming(candle))
                => Decision(signal') = "INVALIDATED"
            /\ Decision(signal') = "INVALIDATED"
                => /\ AwaitingC2 /\ NonConfirming(candle)
                   /\ c1' = None /\ c2' = None /\ direction' = None
                   /\ traded_today' = FALSE
                   /\ UNCHANGED <<today, y_high, y_low>>
      ]_vars

\* C5 witness: a SIGNAL is returned on a date on which a setup was
\* invalidated earlier.
C5_Witness ==
    /\ Decision(signal) = "SIGNAL"
    /\ last_invalidated = Some(CandleDate(closed_candle))

\* the stop of the recorded setup, and the terms of the size quotient
\* (in hundredths): size * 100 = SizeNum / SizeDen(entry)
SetupStop ==
    IF direction = Some("BUY") THEN Min(Val(c1).low, Val(c2).low)
    ELSE Max(Val(c1).high, Val(c2).high)
SizeNum == account_balance * risk_percent * PipsPerPrice
SizeDen(entry) == Abs(entry - SetupStop) * contract_size

\* C6: at the C3 step (c1 and c2 recorded, same day, not locked) the result is
\* SIGNAL or REJECTED and nothing is raised; a SIGNAL's size is positive and
\* is the hundredth nearest to balance * risk / (|entry - stop| * contract
\* size) (4.00 for balance 10000, entry 100.00, stop 99.50); REJECTED is
\* returned exactly when entry = stop or that size rounds to 0 or less, and it
\* clears the setup and leaves traded_today false.
C6_SizeAndReject ==
    [][ (c1 # None /\ c2 # None /\ ~traded_today
         /\ today = Some(CandleDate(closed_candle')))
        => LET entry == Val(closed_candle').open
               den == SizeDen(entry)
               order == Val(Val(signal').order)
           IN  /\ Decision(signal') \in {"SIGNAL", "REJECTED"}
               /\ error' = None
               /\ Decision(signal') = "REJECTED"
                    <=> (entry = SetupStop \/ 2 * SizeNum <= den)
               /\ Decision(signal') = "REJECTED"
                    => /\ c1' = None /\ c2' = None /\ direction' = None
                       /\ traded_today' = FALSE
               /\ Decision(signal') = "SIGNAL"
                    => /\ order.size > 0
                       /\ 2 * Abs(order.size * den - SizeNum) <= den
                       /\ order.level = entry /\ order.stopLevel = SetupStop
                       /\ (account_balance = 10000 /\ entry = 10000
                           /\ SetupStop = 9950) => order.size = 400
      ]_vars

\* C6 witness: the SIGNAL of the example: balance 10000, entry 100.00,
\* stop 99.50, size 4.00.
C6_Witness ==
    /\ Decision(signal) = "SIGNAL"
    /\ account_balance = 10000
    /\ Val(Val(signal).order).level = 10000
    /\ Val(Val(signal).order).stopLevel = 9950
    /\ Val(Val(signal).order).size = 400

\* a REJECTED result whose entry equals the stop of the setup
C6_RejectedReached ==
    /\ Decision(signal) = "REJECTED"
    /\ account_balance = 10000
    /\ Val(closed_candle).open = 10000

\* the last row of the levels file for a day
LastRowOf(day) ==
    LET rows == RowsOf(levels_csv, day) IN rows[Len(rows)]

\* C7: every load_yesterday_levels call asks for an earlier date: 3 days
\* earlier on a Monday (days 4, 11, ..), 2 days earlier on a Sunday (days 3,
\* 10, ..), 1 day earlier otherwise; a load that succeeded took y_high and
\* y_low from the (last) row of exactly that date.
C7_PreviousTradingDay ==
    last_load # None =>
        LET d == Val(last_load).trading_date
            p == Val(last_load).prev_day
        IN  /\ p < d
            /\ d - p = (IF d % 7 = 4 THEN 3 ELSE IF d % 7 = 3 THEN 2 ELSE 1)
            /\ ~Val(last_load).raised
                 => /\ today = Some(d)
                    /\ RowsOf(levels_csv, p) # <<>>
                    /\ y_high = Some(LastRowOf(p).high_bid)
                    /\ y_low = Some(LastRowOf(p).low_bid)

\* C7 witness: a load for Monday 1970-01-05 succeeded with the row of Friday
\* 1970-01-02, from a file that holds two different rows for that Friday.
C7_Witness ==
    /\ last_load = Some([trading_date |-> 4, prev_day |-> 1, raised |-> FALSE])
    /\ Len(RowsOf(levels_csv, 1)) = 2
    /\ y_high = Some(9950)

\* C8: for every supported resolution and every tick, the bucket start
\* _calculate_candle_start computes for the tick is the largest multiple of
\* the resolution at or below its timestamp, and a candle started by the tick
\* has that start_time.
C8_BucketStartIsFloor ==
    \A e \in Epics :
        last_tick[e] # None =>
            LET ts == Val(last_tick[e]).timestamp
                floor == FloorTo(ts, resolution_seconds)
            IN  /\ _calculate_candle_start(resolution_seconds, ts) = floor
                /\ (Val(candle_data[e]).volume = 1
                    /\ Val(candle_data[e]).last_update = None)
                     => Val(candle_data[e]).start_time = floor

\* C8 for the resolutions of at most one hour, where the minute arithmetic of
\* _calculate_candle_start is the floor
C8_FloorUpToOneHour ==
    resolution_seconds <= 3600 => C8_BucketStartIsFloor

\* the epic whose tick a step processed: that of the candle returned, else
\* the epic whose in-progress candle was started or updated
StepEpic ==
    IF closed_candle' # None THEN Val(closed_candle').epic
    ELSE CHOOSE e \in Epics : candle_data'[e] # candle_data[e]

\* C9: process_tick returns a candle if and only if a candle is in progress
\* for the tick's epic and the tick's bucket start is strictly later than that
\* candle's start_time; the candle returned is that in-progress candle, it is
\* replaced by a candle of a later bucket, and it starts later than the candle
\* returned before it for the epic (so no candle is returned twice).
C9_ClosedIffBucketAdvances ==
    [][ LET e == StepEpic
            tick == Val(last_tick'[e])
            bucket == _calculate_candle_start(resolution_seconds, tick.timestamp)
            closed == Val(closed_candle')
            old == Val(candle_data[e])
        IN  /\ closed_candle' # None
                <=> (candle_data[e] # None /\ bucket > old.start_time)
            /\ closed_candle' # None
                => /\ closed.epic = e
                   /\ closed.start_time = old.start_time
                   /\ closed.open = old.open /\ closed.high = old.high
                   /\ closed.low = old.low /\ closed.close = old.close
                   /\ closed.volume = old.volume
                   /\ Val(candle_data'[e]).start_time = bucket
                   /\ last_candle[e] # None
                        => closed.start_time > Val(last_candle[e]).start_time
      ]_vars

\* C9 witness: a candle built from two ticks is returned by the fourth tick,
\* after an earlier candle of the same epic was returned.
C9_Witness ==
    /\ closed_candle # None
    /\ Val(closed_candle).volume = 2
    /\ tick_count = 4
    /\ last_tick[Val(closed_candle).epic] # None
    /\ \A e \in Epics : e # Val(closed_candle).epic => last_tick[e] = None

\* C10: an in-progress candle exists for an epic exactly when a tick of that
\* epic has been processed, and current_candle_start of the epic equals that
\* candle's start_time.
C10_OneCandleInProgress ==
    \A e \in Epics :
        /\ (last_tick[e] # None) <=> (candle_data[e] # None)
        /\ (candle_data[e] = None) <=> (current_candle_start[e] = None)
        /\ candle_data[e] # None
             => current_candle_start[e] = Some(Val(candle_data[e]).start_time)

\* C10 witness: both epics have a candle in progress, and one of them is the
\* successor of a candle that was closed.
C10_Witness ==
    /\ \A e \in Epics : candle_data[e] # None
    /\ \E e \in Epics :
           /\ last_candle[e] # None
           /\ Val(candle_data[e]).start_time > Val(last_candle[e]).start_time

RECURSIVE SeqMax(_)
SeqMax(s) == IF Len(s) = 1 THEN s[1] ELSE Max(s[1], SeqMax(Tail(s)))

RECURSIVE SeqMin(_)
SeqMin(s) == IF Len(s) = 1 THEN s[1] ELSE Min(s[1], SeqMin(Tail(s)))

\* a candle's open, high, low, close and volume are those of a tick sequence
Summarises(candle, bids) ==
    /\ Len(bids) >= 1
    /\ candle.open = bids[1]
    /\ candle.close = bids[Len(bids)]
    /\ candle.high = SeqMax(bids)
    /\ candle.low = SeqMin(bids)
    /\ candle.volume = Len(bids)

\* C11: the candle process_tick builds from a sequence of ticks of one epic
\* has open = the first tick's bid, close = the last tick's bid, high = the
\* maximum bid, low = the minimum bid and volume = the number of ticks; this
\* holds for the candle in progress after every call and for the candle a
\* call returns.
C11_CandleSummarisesTicks ==
    [][ /\ \A e \in Epics :
             candle_data'[e] # None
                 => Summarises(Val(candle_data'[e]), bucket_bids'[e])
        /\ closed_candle' # None
             => Summarises(Val(closed_candle'),
                           bucket_bids[Val(closed_candle').epic])
      ]_vars

\* C11 witness: a candle built from four ticks of one bucket whose high is
\* above and whose low is below both its open and its close.
C11_Witness ==
    \E e \in Epics :
        /\ candle_data[e] # None
        /\ Val(candle_data[e]).volume = 4
        /\ Val(candle_data[e]).high > Max(Val(candle_data[e]).open,
                                          Val(candle_data[e]).close)
        /\ Val(candle_data[e]).low < Min(Val(candle_data[e]).open,
                                         Val(candle_data[e]).close)
        /\ _calculate_candle_start(resolution_seconds,
                                   Val(last_tick[e]).timestamp)
               = Val(candle_data[e]).start_time

\* C12: a tick whose timestamp is a multiple of the resolution and later
\* than the start of the candle in progress is not added to that candle: the
\* call returns that candle as it was, with end_time = its start_time + the
\* resolution and closed_at = the tick's received_at, and the tick opens a
\* new candle starting at the tick's timestamp.
C12_BoundaryTickStartsBucket ==
    [][ LET e == StepEpic
            tick == Val(last_tick'[e])
            closed == Val(closed_candle')
            old == Val(candle_data[e])
        IN  (/\ tick.timestamp % resolution_seconds = 0
             /\ candle_data[e] # None
             /\ tick.timestamp > old.start_time)
            => /\ closed_candle' # None
               /\ closed.start_time = old.start_time
               /\ closed.volume = old.volume
               /\ closed.close = old.close
               /\ closed.end_time = closed.start_time + resolution_seconds
               /\ closed.closed_at = tick.received_at
               /\ candle_data'[e] = Some(NewCandle(tick.bid, tick.timestamp))
      ]_vars

\* C12 witness: a tick exactly on a multiple of the resolution has closed a
\* candle built from two ticks.
C12_Witness ==
    /\ closed_candle # None
    /\ Val(closed_candle).volume = 2
    /\ Val(last_tick[Val(closed_candle).epic]).timestamp % resolution_seconds = 0
    /\ Val(candle_data[Val(closed_candle).epic]).volume = 1

\* high >= max(open, close) >= min(open, close) >= low
WellFormed(candle) ==
    /\ candle.high >= Max(candle.open, candle.close)
    /\ Min(candle.open, candle.close) >= candle.low

\* C13: every candle in progress and every candle returned (the one returned
\* by the last call and last_candle of each epic) has
\* high >= max(open, close) >= min(open, close) >= low.
C13_HighLowBracket ==
    /\ \A e \in Epics :
           /\ candle_data[e] # None => WellFormed(Val(candle_data[e]))
           /\ last_candle[e] # None => WellFormed(Val(last_candle[e]))
    /\ closed_candle # None => WellFormed(Val(closed_candle))

\* C13 witness: a candle was returned whose high is above its close, after a
\* late tick (one stamped before the candle's start) was added to it.
C13_Witness ==
    /\ closed_candle # None
    /\ Val(closed_candle).high > Val(closed_candle).close
    /\ Val(closed_candle).last_update # None
    /\ Val(Val(closed_candle).last_update) < Val(closed_candle).start_time

\* C14: a candle process_tick returned is not altered afterwards: the dict
\* whose items a process_tick call assigns in place is never one that was
\* returned, and last_candle[epic] and the strategy's c1 and c2 refer to
\* returned dicts only.
C14_ReturnedCandleFrozen ==
    /\ written_ref # None
         => /\ written_ref[1][2] \notin returned_refs[written_ref[1][1]]
            /\ written_ref # c1_ref
            /\ written_ref # c2_ref
            /\ Some(written_ref[1][2]) # last_candle_ref[written_ref[1][1]]
    /\ \A e \in Epics :
           last_candle_ref[e] # None => Val(last_candle_ref[e]) \in returned_refs[e]
    /\ c1_ref # None <=> c1 # None
    /\ c2_ref # None <=> c2 # None
    /\ c1_ref # None => Val(c1_ref)[2] \in returned_refs[Val(c1_ref)[1]]
    /\ c2_ref # None => Val(c2_ref)[2] \in returned_refs[Val(c2_ref)[1]]

\* C14 witness: with c1 and c2 stored by the strategy, a later tick has been
\* added in place to the candle in progress.
C14_Witness ==
    /\ c1_ref # None
    /\ c2_ref # None
    /\ c1_ref # c2_ref
    /\ written_ref # None
    /\ closed_candle = None
    /\ last_candle_ref[epic_to_use] # None

\* C15: once stop_streaming has set the stop flag, the tick callback is not
\* invoked any more: no invocation is made with the flag set.
C15_NoCallbackAfterStop == stopped_callbacks = 0

\* C16: once stop_streaming has set the stop flag, no WebSocketApp is created
\* and started and no ping or subscribe message is sent.
C16_NoSideEffectAfterStop ==
    \A c \in Conns :
        /\ ~born_stopped[c]
        /\ \A i \in DOMAIN sent[c] : ~sent[c][i].stop

IsFromOnOpen(m) == m.origin = "on_open"
Destinations(msgs) == [i \in DOMAIN msgs |-> msgs[i].destination]

\* C17: on every connection, the messages on_open sends are a ping and then
\* one subscribe message, the first messages on the connection: both when
\* on_open ran to its end, a shorter start of that sequence only when an
\* exception cut on_open short (a rejected login, or a send on a connection
\* stop_streaming has closed); every subscribe message names the full epic
\* set, and every message carries the credentials of the session at the
\* moment it is built.
C17_PingThenOneSubscribe ==
    \A c \in Conns :
        LET opening == SelectSeq(sent[c], IsFromOnOpen)
        IN  /\ open_result[c] = "completed"
                 => Destinations(opening) = <<"ping", "marketData.subscribe">>
            /\ open_result[c] # "completed"
                 => Destinations(opening) \in {<<>>, <<"ping">>}
            /\ SubSeq(sent[c], 1, Len(opening)) = opening
            /\ open_result[c] = "raised"
                 => \/ _ws_stop
                    \/ \E f \in renewal_failures :
                           f.thread = c /\ f.handler = Some("on_open")
            /\ \A i \in DOMAIN sent[c] :
                   /\ sent[c][i].cst = sent[c][i].current
                   /\ sent[c][i].destination = "marketData.subscribe"
                        => sent[c][i].epics = StreamEpics

\* C17 witness: the connection opened by a reconnect has sent its ping with
\* the credentials of the first login and, the session having expired in
\* between, its subscribe message with those of the renewal.
C17_Witness ==
    /\ open_result[2] = "completed"
    /\ reconnect_result[1] = Some("connected")
    /\ Len(sent[2]) = 2
    /\ sent[2][1].cst = 1
    /\ sent[2][2].cst = 2

\* C18: a thread that entered on_error or on_close with the stop flag not set
\* goes on, after its sleep, to connect_websocket and creates and starts a
\* new WebSocketApp (which begins connecting, its on_open subscribing when
\* it opens) unless the stop flag gets set or the login for the headers is
\* rejected; with the stop flag set no thread starts to reconnect, and the
\* thread whose connection closes ends.
C18_ReconnectUnlessStopped ==
    /\ \A c \in Conns :
           (pc[c] = "reconnect_sleep")
               ~> (\/ reconnect_result[c] = Some("connected")
                   \/ reconnect_result[c] = Some("raised")
                   \/ _ws_stop)
    /\ [][ \A t \in Threads :
             /\ (_ws_stop /\ pc[t] \notin ReconnectPcs)
                    => pc'[t] \notin ReconnectPcs
             /\ (reconnect_result'[t] = Some("stopped")
                  /\ reconnect_result[t] # Some("stopped")) => _ws_stop
             /\ (reconnect_result'[t] = Some("connected")
                  /\ reconnect_result[t] # Some("connected"))
                    => \E n \in Conns : /\ ws_state[n] = "unborn"
                                        /\ ws_state'[n] = "connecting"
                                        /\ _ws_instance' = Some(n)
             /\ (t \in Conns /\ _ws_stop /\ ws_state[t] # "closed"
                  /\ ws_state'[t] = "closed") => pc'[t] = "ended"
      ]_vars

\* C18 witness: after a transport error on the first connection its thread
\* has created the second WebSocketApp, which has opened and subscribed, the
\* stop flag not being set.
C18_Witness ==
    /\ reconnect_result[1] = Some("connected")
    /\ ws_state[1] = "errored"
    /\ ws_state[2] = "open"
    /\ Subscribed(2)
    /\ ~_ws_stop

\* C19: the threads that find the session invalid, or are told so by the
\* server, after one expiry are served by one login: no second login is
\* performed before the session expires again.
C19_SingleFlightRenewal == logins_since_expiry <= 1

\* C20: a rejected login in the streaming path reaches the owner of the
\* process (main's except clauses and its finally, which stops the stream).
C20_RenewalFailureIsFatal ==
    \A f \in renewal_failures : f.propagated

\* C21: a malformed or unroutable message (invalid JSON, an unknown
\* destination, a quote without payload, epic or timestamp) is dropped: no
\* exception leaves on_message, the tick callback is not invoked, and the
\* aggregator, the strategy, the client and the thread are left as they
\* were, so that the messages after it are handled as if it had not come.
C21_MalformedDropped ==
    [][ (last_inbound' # last_inbound /\ Val(last_inbound').kind # "quote")
        => /\ ~Val(last_inbound').escaped
           /\ \A c \in Conns : pc'[c] # "on_message_callback"
           /\ UNCHANGED <<pipelineVars, clientVars, pc, handler, renew,
                          ws_state, sent, stopped_callbacks>>
      ]_vars

\* C21 witness: of three messages delivered on the connection one was
\* malformed; the other two were handed to on_tick_received, the second of
\* them closing the candle of the first.
C21_Witness ==
    /\ last_inbound # None
    /\ Val(last_inbound).kind = "quote"
    /\ Val(last_inbound).n = 3
    /\ tick_count = 2
    /\ closed_candle # None
    /\ ~_ws_stop

\* C22: an exception raised by on_tick_received (ValueError of a missing
\* levels row, an exception of the order call, the TypeError of the trade
\* record) does not leave on_message: the thread goes on receiving, the
\* connection, the stop flag, the callback and the main thread are as before.
C22_FaultContained ==
    [][ (/\ last_inbound' # last_inbound
         /\ Val(last_inbound').kind = "quote"
         /\ Val(last_inbound').exception # None)
        => /\ ~Val(last_inbound').escaped
           /\ \A c \in Conns :
                  pc[c] = "on_message_callback" => pc'[c] = "run_forever"
           /\ pc'[MainThread] = pc[MainThread]
           /\ UNCHANGED <<_ws_stop, _ws_active, _tick_callback, _ws_instance,
                          ws_state>>
      ]_vars

\* C22 witness: the order call of a SIGNAL ended in an exception, and the
\* candle closed by the next tick was handed to the strategy (BLOCKED).
C22_Witness ==
    /\ Len(order_calls) = 1
    /\ Decision(signal) = "BLOCKED"
    /\ last_inbound # None
    /\ Val(last_inbound).kind = "quote"
    /\ Val(last_inbound).exception = None
    /\ ~_ws_stop

\* the missing levels row: every closed candle raises ValueError, and the
\* ticks after it are still handed to on_tick_received
C22_MissingLevelsReached ==
    /\ error = Some("ValueError")
    /\ tick_count = 4
    /\ today = None

\* C23: at no time are two threads about to run, or running, on_tick_received
\* (process_tick and on_candle_close) for the same epic.
C23_SingleOwner ==
    Cardinality({t \in Threads : pc[t] = "on_message_callback"}) <= 1

\* the number of order calls that returned
Returned(calls) == Len(SelectSeq(calls, LAMBDA call : call.outcome = "ok"))

\* C24: every SIGNAL is handed to create_working_order exactly once, and for
\* every order call that returned one row is appended to the trade book.
C24_SignalOrderedAndRecorded ==
    /\ Len(order_calls) = Len(signal_dates)
    /\ \A i \in DOMAIN order_calls : order_calls[i].trade_date = signal_dates[i]
    /\ Len(trade_book) = Returned(order_calls)

\* the candle's date is not the stored today
Rollover == today # Some(CandleDate(closed_candle'))

\* the rollover as the claim describes it: the levels of the previous trading
\* day loaded, the lock released, the setup cleared, today the candle's date,
\* the decision INIT_DAY
RolledOver ==
    /\ Decision(signal') = "INIT_DAY"
    /\ today' = Some(CandleDate(closed_candle'))
    /\ traded_today' = FALSE
    /\ c1' = None /\ c2' = None /\ direction' = None
    /\ last_load' # None
    /\ Val(last_load').trading_date = CandleDate(closed_candle')
    /\ RowsOf(levels_csv, Val(last_load').prev_day) # <<>>
    /\ y_high' = Some(LastRowOf(Val(last_load').prev_day).high_bid)
    /\ y_low' = Some(LastRowOf(Val(last_load').prev_day).low_bid)

\* the levels file has its columns and a row for the previous trading day
LevelsPresent(date) ==
    /\ levels_csv.has_columns
    /\ RowsOf(levels_csv, get_previous_trading_day(date)) # <<>>

\* C25 as stated: on every closed candle whose date differs from the stored
\* today the levels are loaded, traded_today is reset, c1, c2 and direction
\* are cleared, today becomes the candle's date and the decision is INIT_DAY.
C25_RolloverAlways ==
    [][ Rollover => RolledOver ]_vars

\* C25 amended: the rollover runs before any other check (also when the
\* strategy is locked or holds a C1 or C2 of the day before) whenever the
\* levels file has the row of the previous trading day; when the file lacks
\* the row or a column, on_candle_close raises ValueError and no field of the
\* strategy changes (today stays, so the next candle tries again).
C25_RolloverWhenLevelsPresent ==
    [][ Rollover =>
          IF LevelsPresent(CandleDate(closed_candle'))
          THEN RolledOver
          ELSE /\ signal' = None
               /\ error' = Some("ValueError")
               /\ UNCHANGED <<today, traded_today, y_high, y_low, c1, c2,
                              direction>>
      ]_vars

\* C25 witness: the first candle of the day after a SIGNAL: INIT_DAY with the
\* lock of the day before released.
C25_Witness ==
    /\ Decision(signal) = "INIT_DAY"
    /\ CandleDate(closed_candle) = 2
    /\ signal_dates = <<1>>
    /\ today = Some(2)
    /\ ~traded_today
    /\ c1 = None

\* the first candle of the day after a C1 that was not followed up
C25_SetupClearedReached ==
    /\ Decision(signal) = "INIT_DAY"
    /\ CandleDate(closed_candle) = 2
    /\ signal_dates = <<>>
    /\ last_invalidated = None
    /\ Val(closed_candle).close > Val(y_high)
    /\ c1 = None

\* the strategy is at its C1 step / its C2 step for the candle of the step
AtC1Step ==
    today = Some(CandleDate(closed_candle')) /\ ~traded_today /\ c1 = None
AtC2Step ==
    today = Some(CandleDate(closed_candle')) /\ AwaitingC2

\* C26: with no setup a candle that closes exactly on yesterday's high or
\* low returns NO_TRADE and records no C1; with a C1 recorded a candle that
\* closes exactly on the level of the breakout side records no C2 and
\* returns INVALIDATED.
C26_StrictComparisons ==
    [][ LET close == Val(closed_candle').close
        IN  /\ (AtC1Step /\ (close = Val(y_high) \/ close = Val(y_low)))
                => /\ Decision(signal') = "NO_TRADE"
                   /\ c1' = None /\ direction' = None
            /\ (AtC2Step /\ (\/ direction = Some("BUY") /\ close = Val(y_high)
                             \/ direction = Some("SELL") /\ close = Val(y_low)))
                => /\ Decision(signal') = "INVALIDATED"
                   /\ c2' = None
      ]_vars

\* C26 witness: NO_TRADE for a candle that opened inside the range and closed
\* exactly on yesterday's high.
C26_Witness ==
    /\ Decision(signal) = "NO_TRADE"
    /\ Val(closed_candle).close = Val(y_high)
    /\ Val(closed_candle).open < Val(closed_candle).close
    /\ c1 = None

\* C27: direction is set exactly while a C1 is recorded; it changes only when
\* the C1 is recorded (from None) or the setup is cleared (to None, by
\* INVALIDATED, REJECTED, SIGNAL or a rollover); a SIGNAL's order carries the
\* direction recorded with the C1; and at the C2 step a close beyond the
\* opposite level returns INVALIDATED and clears the setup.
C27_DirectionFixed ==
    [][ LET close == Val(closed_candle').close
        IN  /\ (direction' = None) <=> (c1' = None)
            /\ direction' # direction
                 => \/ direction = None /\ Decision(signal') = "C1"
                    \/ /\ direction' = None
                       /\ \/ Decision(signal') \in
                                 {"INVALIDATED", "REJECTED", "SIGNAL"}
                          \/ Rollover
            /\ (c1 # None /\ c1' # None) => c1' = c1
            /\ Decision(signal') = "SIGNAL"
                 => Some(Val(Val(signal').order).direction) = direction
            /\ (AtC2Step /\ (\/ direction = Some("BUY") /\ close < Val(y_low)
                             \/ direction = Some("SELL") /\ close > Val(y_high)))
                 => /\ Decision(signal') = "INVALIDATED"
                    /\ c1' = None /\ c2' = None /\ direction' = None
      ]_vars

\* C27 witness: a SELL SIGNAL on a date on which a setup was invalidated
\* before.
C27_Witness ==
    /\ Decision(signal) = "SIGNAL"
    /\ Val(Val(signal).order).direction = "SELL"
    /\ last_invalidated = Some(CandleDate(closed_candle))

\* C28: a SIGNAL's order has level = the open of the candle handled (the one
\* after C2), stopLevel = min(C1.low, C2.low) for BUY and max(C1.high,
\* C2.high) for SELL, profitLevel = level + tp_pips pips for BUY and level -
\* tp_pips pips for SELL, and orderType STOP; every other result has no order.
C28_OrderLevels ==
    [][ /\ Decision(signal') = "SIGNAL"
            => LET order == Val(Val(signal').order)
                   candle == Val(closed_candle')
               IN  /\ c1 # None /\ c2 # None
                   /\ Val(c1).start_time < Val(c2).start_time
                   /\ Val(c2).start_time < candle.start_time
                   /\ order.level = candle.open
                   /\ order.orderType = "STOP"
                   /\ order.epic = candle.epic
                   /\ order.direction \in {"BUY", "SELL"}
                   /\ order.direction = "BUY"
                        => /\ order.stopLevel = Min(Val(c1).low, Val(c2).low)
                           /\ order.profitLevel = order.level + tp_pips
                   /\ order.direction = "SELL"
                        => /\ order.stopLevel = Max(Val(c1).high, Val(c2).high)
                           /\ order.profitLevel = order.level - tp_pips
        /\ (signal' # None /\ Decision(signal') # "SIGNAL")
            => Val(signal').order = None
        /\ Decision(signal') = "SIGNAL" => Val(signal').order # None
      ]_vars

\* C28 witness: a SELL SIGNAL whose stop, the higher of the two highs, lies
\* above the entry and whose target lies tp_pips below it.
C28_Witness ==
    /\ Decision(signal) = "SIGNAL"
    /\ Val(Val(signal).order).direction = "SELL"
    /\ Val(Val(signal).order).stopLevel > Val(Val(signal).order).level
    /\ Val(Val(signal).order).profitLevel
           = Val(Val(signal).order).level - tp_pips

\* C29: a tick whose bucket start is earlier than the start_time of the
\* candle in progress is added to that candle (high, low, close, volume); no
\* candle is returned, none is started, start_time stays.
C29_LateTickFolded ==
    [][ LET e == StepEpic
            tick == Val(last_tick'[e])
            bucket == _calculate_candle_start(resolution_seconds, tick.timestamp)
            old == Val(candle_data[e])
            new == Val(candle_data'[e])
        IN  (candle_data[e] # None /\ bucket < old.start_time)
            => /\ closed_candle' = None
               /\ UNCHANGED <<current_candle_start, last_candle,
                              last_candle_time>>
               /\ new.start_time = old.start_time
               /\ new.open = old.open
               /\ new.high = Max(old.high, tick.bid)
               /\ new.low = Min(old.low, tick.bid)
               /\ new.close = tick.bid
               /\ new.volume = old.volume + 1
      ]_vars

\* C29 witness: the candle in progress holds a late tick (stamped before its
\* start_time) that set its low.
C29_Witness ==
    \E e \in Epics :
        /\ candle_data[e] # None
        /\ closed_candle = None
        /\ Val(candle_data[e]).last_update # None
        /\ Val(Val(candle_data[e]).last_update) < Val(candle_data[e]).start_time
        /\ Val(candle_data[e]).low < Val(candle_data[e]).open
        /\ Val(candle_data[e]).close = Val(candle_data[e]).low

InvalidToken == "error.invalid.session.token"

\* C30: a subscribe message is resent by on_message only in answer to a
\* subscribe response with error.invalid.session.token, on the connection
\* the response came on, after a login that followed the refused message,
\* with the credentials of the session at that moment and the full epic
\* set; once the renewal's login has returned the message is resent, unless
\* the connection has been closed or the session has expired again and the
\* login for the headers is rejected; a response with another error code is
\* followed by no renewal and no message.
C30_RenewThenResubscribe ==
    /\ [](\A c \in Conns : \A i \in DOMAIN sent[c] :
            /\ sent[c][i].origin = "on_message"
                 => /\ i > 1
                    /\ sent[c][i].destination = "marketData.subscribe"
                    /\ sent[c][i - 1].destination = "marketData.subscribe"
                    /\ sent[c][i - 1].answered = Some(InvalidToken)
                    /\ sent[c][i].cst > sent[c][i - 1].cst
                    /\ sent[c][i].cst = sent[c][i].current
                    /\ sent[c][i].epics = StreamEpics
            /\ (sent[c][i].answered # None
                /\ sent[c][i].answered # Some(InvalidToken))
                 => i = Len(sent[c]))
    /\ [][ \A c \in Conns :
             /\ (Len(sent[c]) > 0 /\ Len(sent'[c]) = Len(sent[c])
                 /\ sent'[c] # sent[c])
                  => IF sent'[c][Len(sent[c])].answered = Some(InvalidToken)
                     THEN pc'[c] = "on_message_renew"
                     ELSE UNCHANGED <<pc, renew, cst, security_token,
                                      _session_lock>>
             /\ (pc[c] = "on_message_renew" /\ pc'[c] = "resubscribe")
                  => /\ security_token' = cst
                     /\ cst = security_token + 1
                     /\ _session_lock = Some(c)
             /\ (pc[c] = "resubscribe" /\ pc'[c] # "resubscribe"
                 /\ ws_state[c] = "open"
                 /\ renewal_failures' = renewal_failures)
                  => /\ Len(sent'[c]) = Len(sent[c]) + 1
                     /\ sent'[c][Len(sent'[c])].origin = "on_message"
         ]_vars

\* C30 witness: the subscribe message of on_open was refused with
\* error.invalid.session.token and resent with the credentials of the
\* renewal; the resent message was refused with another error code.
C30_Witness ==
    \E c \in Conns :
        /\ Len(sent[c]) = 3
        /\ sent[c][2].answered = Some(InvalidToken)
        /\ sent[c][3].origin = "on_message"
        /\ sent[c][3].cst = sent[c][2].cst + 1
        /\ sent[c][3].answered = Some("error.not-found.epic")
        /\ pc[c] = "run_forever"

\* C31: the step of the WebSocketApp thread that runs the tick callback does
\* not itself save a closed candle (_close_candle's save_candle, which
\* follows the assignment of last_candle) or submit an order
\* (create_working_order): that work is handed to another context, and the
\* thread is back in its receive loop before the work completes.
C31_SlowWorkHandedOff ==
    [][ \A c \in Conns :
            (pc[c] = "on_message_callback" /\ pc'[c] = "run_forever")
            => /\ order_calls' = order_calls
               /\ last_candle' = last_candle
      ]_vars

\* the order submission alone: no step of a WebSocketApp thread contains a
\* create_working_order call
C31_OrderHandedOff ==
    [][ order_calls' # order_calls
        => \A c \in Conns : pc[c] # "on_message_callback" ]_vars

\* both tokens are set and the clock is before session_expiry - 5 minutes
CredentialsValid == cst # 0 /\ security_token # 0 /\ ~expired

\* C32: _is_session_valid holds exactly while both tokens are set and the
\* clock is before session_expiry minus five minutes; and a thread that
\* reads the credentials (for a ping, a subscribe message, the headers of a
\* new WebSocketApp) does so while they are valid, or after its own renewal
\* has completed.
C32_ValidOrRenewed ==
    /\ [](_is_session_valid <=> CredentialsValid)
    /\ [][ /\ \A c \in Conns :
                (Len(sent'[c]) > Len(sent[c]) \/ ws_headers'[c] # ws_headers[c])
                => (CredentialsValid \/ renew[c] = "done")
           /\ \A n \in Conns :
                (ws_state[n] = "unborn" /\ ws_state'[n] # "unborn")
                => \E t \in Threads :
                       /\ pc[t] = "connect" /\ pc'[t] # "connect"
                       /\ (CredentialsValid \/ renew[t] = "done")
         ]_vars

\* C32 witness: the session expired before on_open of the second connection
\* read the headers; its ping carries the credentials of the renewal.
C32_Witness ==
    /\ expiries = 1
    /\ Len(sent[1]) >= 1
    /\ Len(sent[2]) >= 1
    /\ sent[2][1].destination = "ping"
    /\ sent[2][1].cst = 2
    /\ sent[2][1].security_token = 2
    /\ sent[1][1].cst = 1

\* C34: the cst and the securityToken of every ping and subscribe message
\* sent were issued by the same login.
C34_TokensFromOneLogin ==
    \A c \in Conns : \A i \in DOMAIN sent[c] :
        sent[c][i].cst = sent[c][i].security_token

\* the connections that are being established or are open
Live == {c \in Conns : ws_state[c] \in {"connecting", "open"}}

\* C33: at most one connection is live at any time: the handlers called for
\* one disconnect (on_error, on_close) leave one new connection, not two.
C33_OneLiveConnection == Cardinality(Live) <= 1

\* the candle process_tick returns in this step follows the candle it
\* returned before for the epic: later start, no overlap
FollowsLast(e) ==
    (last_candle'[e] # last_candle[e] /\ last_candle[e] # None)
    => /\ Val(last_candle[e]).start_time < Val(last_candle'[e]).start_time
       /\ Val(last_candle[e]).end_time <= Val(last_candle'[e]).start_time

\* C35: for every epic and every resolution the closed candles returned by
\* process_tick have strictly increasing start_time, and the end_time of
\* each is at most the start_time of the next.
C35_ClosedCandlesDisjoint ==
    [][ \A e \in Epics : FollowsLast(e) ]_vars

\* the same for the resolutions up to one hour, whose bucket start is the
\* floor to the resolution
C35_DisjointUpToOneHour ==
    [][ resolution_seconds <= 3600 => \A e \in Epics : FollowsLast(e) ]_vars

\* the start times alone increase strictly, for every resolution
C35_StartsIncrease ==
    [][ \A e \in Epics :
          (last_candle'[e] # last_candle[e] /\ last_candle[e] # None)
          => Val(last_candle[e]).start_time < Val(last_candle'[e]).start_time
      ]_vars

\* C36: the order of every SIGNAL has a positive size, its stopLevel on the
\* losing side of its level and its profitLevel on the winning side: for BUY
\* stopLevel < level < profitLevel, for SELL profitLevel < level < stopLevel.
C36_LevelsOnCorrectSides ==
    Decision(signal) = "SIGNAL"
    => LET order == Val(Val(signal).order)
       IN  /\ order.size > 0
           /\ order.direction = "BUY"
                => order.stopLevel < order.level
                   /\ order.level < order.profitLevel
           /\ order.direction = "SELL"
                => order.profitLevel < order.level
                   /\ order.level < order.stopLevel

\* the size and the side of the profitLevel alone
C36_SizeAndTargetSide ==
    Decision(signal) = "SIGNAL"
    => LET order == Val(Val(signal).order)
       IN  /\ order.size > 0
           /\ order.stopLevel # order.level
           /\ order.direction = "BUY" => order.level < order.profitLevel
           /\ order.direction = "SELL" => order.profitLevel < order.level

\* C37: when the levels file lacks the row of the previous trading day (or a
\* column) for a candle of a new date, on_candle_close raises ValueError and
\* leaves today, traded_today, y_high, y_low, c1, c2 and direction as they
\* were; the load is attempted again by every later candle of that date; and
\* no C1, C2 or SIGNAL is returned for a date without a successful load.
C37_FailedLoadRetried ==
    /\ [][ (Rollover /\ ~LevelsPresent(CandleDate(closed_candle')))
           => /\ signal' = None
              /\ error' = Some("ValueError")
              /\ UNCHANGED <<today, traded_today, y_high, y_low, c1, c2,
                             direction>>
              /\ last_load' # None
              /\ Val(last_load').trading_date = CandleDate(closed_candle')
              /\ Val(last_load').raised
         ]_vars
    /\ [][ ~LevelsPresent(CandleDate(closed_candle')) => Rollover ]_vars
    /\ [](Decision(signal) \in {"C1", "C2", "SIGNAL"}
            => /\ CandleDate(closed_candle) \in init_dates
               /\ LevelsPresent(CandleDate(closed_candle)))

\* C37 witness: the third candle of a date whose load fails raised again; the
\* strategy still holds the day before, its lock and its levels.
C37_Witness ==
    /\ error = Some("ValueError")
    /\ signal = None
    /\ CandleDate(closed_candle) = 2
    /\ MinuteOf(Val(closed_candle).start_time) = 2
    /\ today = Some(1)
    /\ traded_today
    /\ y_high # None
    /\ Val(last_load).raised

\* the setup of the day before (a C1 without C2) is kept as well
C37_SetupKeptReached ==
    /\ error = Some("ValueError")
    /\ CandleDate(closed_candle) = 2
    /\ today = Some(1)
    /\ c1 # None
    /\ direction # None

\* C38: after every on_candle_close call c2 is set only if c1 is, direction
\* is set exactly when c1 is and is then BUY or SELL, and while traded_today
\* is true c1, c2 and direction are all None.
C38_SetupConsistent ==
    /\ c2 # None => c1 # None
    /\ direction # None <=> c1 # None
    /\ direction # None => Val(direction) \in {"BUY", "SELL"}
    /\ traded_today => (c1 = None /\ c2 = None /\ direction = None)

\* C38 witness: a C2 has been returned: c1, c2 and the direction are set and
\* the day is not locked.
C38_Witness ==
    /\ Decision(signal) = "C2"
    /\ c1 # None /\ c2 # None
    /\ direction = Some("SELL")
    /\ ~traded_today

\* the state after a SIGNAL: locked, the setup cleared
C38_LockedReached ==
    /\ Decision(signal) = "SIGNAL"
    /\ traded_today
    /\ c1 = None /\ c2 = None /\ direction = None

\* C39: create_working_order is called at most once per trading day; the
\* call is made for a SIGNAL, whose on_candle_close has already set
\* traded_today, and the lock stays whatever the call's outcome; every later
\* candle of a day that had an order call, failed or not, is answered
\* BLOCKED and leads to no further call.
C39_OneAttemptPerDay ==
    /\ [](\A i, j \in DOMAIN order_calls :
            i # j => order_calls[i].trade_date # order_calls[j].trade_date)
    /\ [][ /\ order_calls' # order_calls
               => /\ Len(order_calls') = Len(order_calls) + 1
                  /\ Decision(signal') = "SIGNAL"
                  /\ order_calls'[Len(order_calls')].trade_date
                         = CandleDate(closed_candle')
                  /\ ~traded_today
                  /\ traded_today'
                  /\ today' = Some(CandleDate(closed_candle'))
           /\ (tick_count' # tick_count /\ closed_candle' # None
               /\ \E i \in DOMAIN order_calls :
                      order_calls[i].trade_date = CandleDate(closed_candle'))
               => /\ Decision(signal') = "BLOCKED"
                  /\ traded_today'
                  /\ order_calls' = order_calls
         ]_vars

\* C39 witness: the order call of the day's SIGNAL failed; the candle closed
\* by the next tick of that day was answered BLOCKED and nothing was called.
C39_Witness ==
    /\ Len(order_calls) = 1
    /\ order_calls[1].outcome = "HTTPError"
    /\ closed_candle # None
    /\ CandleDate(closed_candle) = order_calls[1].trade_date
    /\ Decision(signal) = "BLOCKED"
    /\ traded_today
    /\ trade_book = <<>>

-----------------------------------------------------------------------------
(* C40: one decision per candle; the rollover candle is consumed by INIT_DAY *)

DecisionNames ==
    {"INIT_DAY", "BLOCKED", "C1", "C2", "NO_TRADE", "INVALIDATED", "REJECTED",
     "SIGNAL"}

\* the result returned for the candle: one dict with one decision, stamped
\* with the candle's start_time
OneDecisionReturned ==
    /\ signal' # None
    /\ Decision(signal') \in DecisionNames
    /\ Val(signal').time = Val(closed_candle').start_time
    /\ error' = None

\* the setup is built one candle at a time, on candles of the stored today:
\* a rollover candle that returns is answered INIT_DAY with the setup empty
\* and no signal recorded; C1 is recorded only on a candle of the stored
\* today with no C1 before it; C2 only with a C1 of an earlier candle; a
\* SIGNAL only with a C1 and a C2 of earlier candles
RolloverCandleConsumed ==
    /\ (Rollover /\ signal' # None)
           => /\ Decision(signal') = "INIT_DAY"
              /\ c1' = None /\ c2' = None /\ direction' = None
              /\ signal_dates' = signal_dates
    /\ (c1' # None /\ c1' # c1)
           => /\ ~Rollover
              /\ c1 = None
              /\ Decision(signal') = "C1"
              /\ c1' = closed_candle'
    /\ (c2' # None /\ c2' # c2)
           => /\ ~Rollover
              /\ c1 # None /\ c2 = None
              /\ Decision(signal') = "C2"
              /\ c2' = closed_candle'
    /\ (signal' # signal /\ Decision(signal') = "SIGNAL")
           => /\ ~Rollover
              /\ c1 # None /\ c2 # None
              /\ Val(c1).start_time < Val(c2).start_time
              /\ Val(c2).start_time < Val(closed_candle').start_time
              /\ init_dates' = init_dates
              /\ CandleDate(closed_candle') \in init_dates

\* the candles of a date arrive one minute apart from midnight on, so the
\* k-th closed candle of the date starts (k - 1) minutes after midnight
CandleOfDay(cc) ==
    (Val(cc).start_time - Midnight(CandleDate(cc))) \div 60 + 1

SignalNotBeforeFourthCandle ==
    Decision(signal) = "SIGNAL" => CandleOfDay(closed_candle) >= 4

\* C40 as stated: on_candle_close returns exactly one decision per candle,
\* the candle that triggers a day rollover is consumed by INIT_DAY and never
\* evaluated as C1, C2 or C3, and the earliest SIGNAL of a day is produced by
\* the fourth closed candle of that day.
C40_OneDecisionPerCandle ==
    /\ [][ closed_candle' # None
              => OneDecisionReturned /\ RolloverCandleConsumed ]_vars
    /\ []SignalNotBeforeFourthCandle

\* C40 amended: on_candle_close returns exactly one decision per candle
\* unless the candle triggers a day rollover whose load_yesterday_levels
\* raises (then ValueError leaves the call and nothing is returned); a
\* rollover candle whose load succeeds is consumed by INIT_DAY and never
\* evaluated as C1, C2 or C3, so the earliest SIGNAL of a day is produced by
\* the fourth closed candle of that day.
C40_OneDecisionUnlessLoadRaises ==
    /\ [][ closed_candle' # None
              => /\ IF Rollover /\ ~LevelsPresent(CandleDate(closed_candle'))
                    THEN signal' = None /\ error' = Some("ValueError")
                    ELSE OneDecisionReturned
                 /\ RolloverCandleConsumed ]_vars
    /\ []SignalNotBeforeFourthCandle

\* C40 witness: the fourth candle of a day whose first candle was answered
\* INIT_DAY produces the SIGNAL, the first of the run.
C40_Witness ==
    /\ Decision(signal) = "SIGNAL"
    /\ CandleOfDay(closed_candle) = 4
    /\ CandleDate(closed_candle) \in init_dates
    /\ signal_dates = <<CandleDate(closed_candle)>>
    /\ traded_today

\* a rollover candle that itself breaks yesterday's high is answered INIT_DAY
C40_BreakoutOnRolloverReached ==
    /\ Decision(signal) = "INIT_DAY"
    /\ CandleOfDay(closed_candle) = 1
    /\ y_high # None
    /\ Val(closed_candle).close > Val(y_high)
    /\ c1 = None

====
